---- MODULE Spec2Model ----
(***************************************************************************)
(* Notora v2: repository statement builders, the service execution layer,  *)
(* the pagination calculator and the many-to-many reconciler, as a state   *)
(* machine over an abstract storage.                                        *)
(*                                                                          *)
(* Pure functions (pagination metadata, spec merging) are exercised by the *)
(* specifications SpecPage and SpecMerge, which draw the inputs in Init.   *)
(* The service verbs run as flows over the storage in Spec; one action is  *)
(* one storage round-trip (one await) of a verb.                           *)
(***************************************************************************)
EXTENDS Integers, Sequences, FiniteSets, TLC

VARIABLES
    args,       \* inputs of the pure function under evaluation
    ret,        \* its result, NotCalled before the call
    table,      \* entity table: pk -> row
    assoc,      \* association tables: relation -> (owner, target) -> row count
    flow,       \* per flow: the service call in progress
    service     \* the service instance: its configuration and its repository

vars == <<args, ret, table, assoc, flow, service>>

pure_vars == <<args, ret>>

storage_vars == <<table, assoc, flow, service>>

----------------------------------------------------------------------------
(* Generic helpers *)

Min(a, b) == IF a <= b THEN a ELSE b

Max(a, b) == IF a >= b THEN a ELSE b

Range(s) == {s[i] : i \in 1..Len(s)}

SeqsUpTo(S, n) == UNION {[1..k -> S] : k \in 0..n}

\* Python's None for an optional argument, and a supplied value.
None == [given |-> FALSE]

Some(v) == [given |-> TRUE, v |-> v]

NotCalled == [op |-> "none"]

----------------------------------------------------------------------------
(* Pagination calculator: PaginationMetaSchema.calculate *)

MaxTotal == 10

MaxLimit == 10

MaxOffset == 10

NegRange == 2

LimitError == "limit must be a positive integer"

OffsetError == "offset must be zero or a positive integer"

calculate_unclamped(total, limit, offset) ==
    IF limit <= 0 THEN [ok |-> FALSE, error |-> LimitError]
    ELSE IF offset < 0 THEN [ok |-> FALSE, error |-> OffsetError]
    ELSE LET last_page == IF total = 0 THEN 1 ELSE (total + limit - 1) \div limit
         IN  [ok |-> TRUE, total |-> total, limit |-> limit, offset |-> offset,
              current_page |-> (offset \div limit) + 1, last_page |-> last_page]

calculate_unvalidated(total, limit, offset) ==
    IF limit = 0 THEN [ok |-> TRUE, total |-> total, limit |-> limit, offset |-> offset,
                       current_page |-> 1, last_page |-> 1]
    ELSE LET last_page == IF total = 0 THEN 1
                          ELSE Max(1, (total + Max(limit, 1) - 1) \div Max(limit, 1))
             page == (Max(offset, 0) \div Max(limit, 1)) + 1
         IN  [ok |-> TRUE, total |-> total, limit |-> limit, offset |-> offset,
              current_page |-> Min(Max(page, 1), last_page), last_page |-> last_page]

\* calculate(total, limit, offset): validation first, then the page numbers.
calculate(total, limit, offset) ==
    IF limit <= 0 THEN [ok |-> FALSE, error |-> LimitError]
    ELSE IF offset < 0 THEN [ok |-> FALSE, error |-> OffsetError]
    ELSE LET last_page == IF total = 0 THEN 1 ELSE (total + limit - 1) \div limit
             page == (offset \div limit) + 1
         IN  [ok |-> TRUE, total |-> total, limit |-> limit, offset |-> offset,
              current_page |-> Min(Max(page, 1), last_page), last_page |-> last_page]

----------------------------------------------------------------------------
(* Storage and flows: fixed while a pure function is evaluated *)

IdleStorage ==
    /\ table = <<>>
    /\ assoc = <<>>
    /\ flow = <<>>
    /\ service = <<>>

----------------------------------------------------------------------------
(* SpecPage: calculate on every input of the bounded ranges *)

InitPage ==
    /\ args \in [total : 0..MaxTotal,
                 limit : (0 - NegRange)..MaxLimit,
                 offset : (0 - NegRange)..MaxOffset]
    /\ ret = NotCalled
    /\ IdleStorage

Calculate ==
    /\ ret = NotCalled
    /\ ret' = [op |-> "calculate", out |-> calculate(args.total, args.limit, args.offset)]
    /\ UNCHANGED <<args, table, assoc, flow, service>>

NextPage == Calculate

SpecPage == InitPage /\ [][NextPage]_vars

(* C1: for every total >= 0, limit > 0 and offset >= 0, calculate returns
   last_page = max(1, ceil(total/limit)) and
   current_page = min(floor(offset/limit) + 1, last_page), hence
   1 <= current_page <= last_page; total = 0 gives page 1 of 1, and
   (total=5, limit=2, offset=10) is clamped to page 3 of 3.  The ceiling and
   the floor are stated by their defining inequalities. *)
C1_PageNumbers ==
    (ret.op = "calculate" /\ args.total >= 0 /\ args.limit > 0 /\ args.offset >= 0) =>
        LET m == ret.out
            ceil == CHOOSE n \in 0..(args.total + 1) :
                        /\ n * args.limit >= args.total
                        /\ \A k \in 0..(args.total + 1) : k * args.limit >= args.total => n <= k
            floor == CHOOSE q \in 0..args.offset :
                        q * args.limit <= args.offset /\ args.offset < (q + 1) * args.limit
        IN  /\ m.ok
            /\ m.last_page = Max(1, ceil)
            /\ m.current_page = Min(floor + 1, m.last_page)
            /\ 1 <= m.current_page /\ m.current_page <= m.last_page
            /\ (args.total = 0 => m.current_page = 1 /\ m.last_page = 1)
            /\ ((args.total = 5 /\ args.limit = 2 /\ args.offset = 10) =>
                    m.current_page = 3 /\ m.last_page = 3)

C1_Witness ==
    /\ ret.op = "calculate"
    /\ args = [total |-> 5, limit |-> 2, offset |-> 10]
    /\ ret.out.ok
    /\ ret.out.current_page = 3
    /\ ret.out.last_page = 3

(* C2: calculate fails with the limit-validation error for every limit <= 0,
   and with the offset-validation error for every offset < 0 when the limit
   is valid, whatever total is; a failed call returns no metadata record. *)
C2_Validation ==
    ret.op = "calculate" =>
        /\ (args.limit <= 0 => ~ret.out.ok /\ ret.out.error = LimitError)
        /\ ((args.limit > 0 /\ args.offset < 0) =>
                ~ret.out.ok /\ ret.out.error = OffsetError)
        /\ (~ret.out.ok => DOMAIN ret.out = {"ok", "error"})

C2_Witness ==
    /\ ret.op = "calculate"
    /\ args.total = 10 /\ args.limit = 5 /\ args.offset = -1
    /\ ~ret.out.ok
    /\ ret.out.error = OffsetError

----------------------------------------------------------------------------
(* Repository configuration, specs and clauses *)

MaxSpecs == 2

\* Two entity types: one with an "id" attribute and one without.
ItemModel == [name |-> "Item", attrs |-> {"id", "name", "deleted_at"}]

NoteModel == [name |-> "Note", attrs |-> {"slug", "name"}]

Models == {ItemModel, NoteModel}

\* A resolved clause: an expression over one entity type.
Clause(model_name, expr, dir) == [model |-> model_name, expr |-> expr, dir |-> dir]

\* A spec is a literal clause or a factory, a function of the entity type.
Literal(clause) == [callable |-> FALSE, clause |-> clause]

Factory(expr) == [callable |-> TRUE,
                  fn |-> [m \in Models |-> Clause(m.name, expr, "")]]

SpecUniverse ==
    {Literal(Clause("Item", "a", "")), Literal(Clause("Item", "id", "asc")),
     Factory("f"), Factory("g")}

FallbackAttributes == {"id", "slug"}

\* Python truthiness of an optional sequence: `x or ()`.
OrEmpty(opt) == IF opt.given /\ opt.v # <<>> THEN opt.v ELSE <<>>

\* LoadOptionsMixin._resolve_option
resolve_option(repo, spec) == IF spec.callable THEN spec.fn[repo.model] ELSE spec.clause

\* FilterableMixin._resolve_filter
resolve_filter(repo, spec) == IF spec.callable THEN spec.fn[repo.model] ELSE spec.clause

\* OrderableMixin._resolve_order
resolve_order(repo, spec) == IF spec.callable THEN spec.fn[repo.model] ELSE spec.clause

merge_options_overrides_first(repo, options) ==
    LET custom == OrEmpty(options)
        specs == custom \o repo.default_options
    IN  [i \in 1..Len(specs) |-> resolve_option(repo, specs[i])]

\* LoadOptionsMixin.merge_options
merge_options(repo, options) ==
    LET custom == OrEmpty(options)
        specs == repo.default_options \o custom
    IN  [i \in 1..Len(specs) |-> resolve_option(repo, specs[i])]

\* FilterableMixin.merge_filters
merge_filters(repo, filters) ==
    LET custom == OrEmpty(filters)
        specs == repo.default_filters \o custom
    IN  [i \in 1..Len(specs) |-> resolve_filter(repo, specs[i])]

merge_ordering_always_fallback(repo, ordering) ==
    LET custom == OrEmpty(ordering)
        specs == repo.default_ordering \o custom
        resolved == [i \in 1..Len(specs) |-> resolve_order(repo, specs[i])]
    IN  IF repo.fallback_sort_attribute \in repo.model.attrs
        THEN Append(resolved, Clause(repo.model.name, repo.fallback_sort_attribute, "asc"))
        ELSE resolved

\* OrderableMixin.merge_ordering: the fallback clause only when nothing resolved.
merge_ordering(repo, ordering) ==
    LET custom == OrEmpty(ordering)
        specs == repo.default_ordering \o custom
        resolved == [i \in 1..Len(specs) |-> resolve_order(repo, specs[i])]
    IN  IF resolved = <<>> /\ repo.fallback_sort_attribute \in repo.model.attrs
        THEN Append(resolved, Clause(repo.model.name, repo.fallback_sort_attribute, "asc"))
        ELSE resolved

\* A select statement under construction.
Select(model) == [kind |-> "select", model |-> model.name, options |-> <<>>,
                  where |-> <<>>, order_by |-> <<>>, limit |-> None, offset |-> None]

\* LoadOptionsMixin.apply_options
apply_options(repo, statement, options) ==
    LET merged == merge_options(repo, options)
    IN  IF merged # <<>> THEN [statement EXCEPT !.options = @ \o merged] ELSE statement

\* FilterableMixin.apply_filters: one where() per clause, in order.
apply_filters(repo, statement, filters) ==
    [statement EXCEPT !.where = @ \o merge_filters(repo, filters)]

\* OrderableMixin.apply_ordering
apply_ordering(repo, statement, ordering) ==
    LET clauses == merge_ordering(repo, ordering)
    IN  IF clauses # <<>> THEN [statement EXCEPT !.order_by = @ \o clauses] ELSE statement

----------------------------------------------------------------------------
(* SpecMerge: the composers on every repository configuration and override *)

\* The same defaults are configured for filters, options and ordering.
MergeRepos ==
    {[model |-> m, default_filters |-> d, default_options |-> d, default_ordering |-> d,
      fallback_sort_attribute |-> a, pk_attribute |-> "id"] :
        m \in Models, d \in SeqsUpTo(SpecUniverse, MaxSpecs), a \in FallbackAttributes}

InitMerge ==
    /\ args \in [repo : MergeRepos,
                 override : {None} \cup {Some(o) : o \in SeqsUpTo(SpecUniverse, MaxSpecs)}]
    /\ ret = NotCalled
    /\ IdleStorage

MergeFilters ==
    /\ ret = NotCalled
    /\ ret' = [op |-> "merge_filters", out |-> merge_filters(args.repo, args.override)]
    /\ UNCHANGED <<args, table, assoc, flow, service>>

MergeOptions ==
    /\ ret = NotCalled
    /\ ret' = [op |-> "merge_options", out |-> merge_options(args.repo, args.override)]
    /\ UNCHANGED <<args, table, assoc, flow, service>>

MergeOrdering ==
    /\ ret = NotCalled
    /\ ret' = [op |-> "merge_ordering", out |-> merge_ordering(args.repo, args.override)]
    /\ UNCHANGED <<args, table, assoc, flow, service>>

ApplyOrdering ==
    /\ ret = NotCalled
    /\ ret' = [op |-> "apply_ordering",
               out |-> apply_ordering(args.repo, Select(args.repo.model), args.override)]
    /\ UNCHANGED <<args, table, assoc, flow, service>>

NextMerge == MergeFilters \/ MergeOptions \/ MergeOrdering \/ ApplyOrdering

SpecMerge == InitMerge /\ [][NextMerge]_vars

\* What a spec resolves to on the repository's entity type, stated on its own.
ResolvedOn(repo, spec) == IF spec.callable THEN spec.fn[repo.model] ELSE spec.clause

\* D followed by O, element by element, after resolution.
IsResolvedConcat(out, repo, D, O) ==
    /\ Len(out) = Len(D) + Len(O)
    /\ \A i \in 1..Len(D) : out[i] = ResolvedOn(repo, D[i])
    /\ \A j \in 1..Len(O) : out[Len(D) + j] = ResolvedOn(repo, O[j])

OverrideSeq == IF args.override.given THEN args.override.v ELSE <<>>

(* C3: merge_filters(O) and merge_options(O) return resolve(D) followed by
   resolve(O) in their original order; with O empty or None the result is
   resolved D, with D empty it is resolved O; merge_ordering returns the same
   concatenation whenever D followed by O is non-empty. *)
C3_MergeOrder ==
    /\ ret.op = "merge_filters" =>
           IsResolvedConcat(ret.out, args.repo, args.repo.default_filters, OverrideSeq)
    /\ ret.op = "merge_options" =>
           IsResolvedConcat(ret.out, args.repo, args.repo.default_options, OverrideSeq)
    /\ (ret.op = "merge_ordering" /\ args.repo.default_ordering \o OverrideSeq # <<>>) =>
           IsResolvedConcat(ret.out, args.repo, args.repo.default_ordering, OverrideSeq)

C3_Witness ==
    /\ ret.op = "merge_options"
    /\ Len(args.repo.default_options) = 2
    /\ args.repo.default_options[1].callable
    /\ args.override.given
    /\ Len(args.override.v) = 2
    /\ ~args.override.v[1].callable
    /\ args.override.v[1] # args.override.v[2]
    /\ Len(ret.out) = 4

FallbackClause == Clause(args.repo.model.name, args.repo.fallback_sort_attribute, "asc")

HasFallbackAttribute == args.repo.fallback_sort_attribute \in args.repo.model.attrs

NoOrderingSpec == args.repo.default_ordering = <<>> /\ OverrideSeq = <<>>

(* C4: merge_ordering with no default and no call-supplied ordering returns
   exactly one clause, ascending on the fallback attribute, when the model has
   that attribute; with at least one spec present nothing is appended to the
   resolved specs; without the attribute and without specs the result is
   empty and apply_ordering leaves the statement without an order_by. *)
C4_OrderingFallback ==
    /\ ret.op = "merge_ordering" =>
        /\ (NoOrderingSpec /\ HasFallbackAttribute) => ret.out = <<FallbackClause>>
        /\ ~NoOrderingSpec =>
               Len(ret.out) = Len(args.repo.default_ordering) + Len(OverrideSeq)
        /\ (NoOrderingSpec /\ ~HasFallbackAttribute) => ret.out = <<>>
    /\ ret.op = "apply_ordering" =>
        /\ (NoOrderingSpec /\ ~HasFallbackAttribute) =>
               ret.out = Select(args.repo.model)
        /\ (NoOrderingSpec /\ HasFallbackAttribute) =>
               ret.out.order_by = <<FallbackClause>>
        /\ ~NoOrderingSpec =>
               Len(ret.out.order_by) = Len(args.repo.default_ordering) + Len(OverrideSeq)

C4_Witness ==
    /\ ret.op = "merge_ordering"
    /\ NoOrderingSpec
    /\ args.override.given
    /\ args.repo.model = NoteModel
    /\ args.repo.fallback_sort_attribute = "slug"
    /\ ret.out = <<Clause("Note", "slug", "asc")>>

----------------------------------------------------------------------------
(* Execution/translation layer: SessionExecutorMixin *)

MaxRows == 2

\* What one session.execute yields: result rows, or an exception raised.
Rows(rows) == [raised |-> FALSE, rows |-> rows]

Raise(exc) == [raised |-> TRUE, exc |-> exc]

Return(value) == [raised |-> FALSE, value |-> value]

\* A storage failure.  The text (err.args[0]) is a sequence of lines; a line
\* may hold a foreign-key violation phrase and a unique violation phrase.
Line(fk, unique) == [fk |-> fk, unique |-> unique]

IntegrityError(text) == [type |-> "IntegrityError", text |-> text]

OperationalError == [type |-> "OperationalError", text |-> <<Line(None, None)>>]

MultipleResultsFound == [type |-> "MultipleResultsFound"]

NotFoundError(message) == [type |-> "NotFoundError", message |-> message]

FKNotFoundError(message, fk_name, table_name) ==
    [type |-> "FKNotFoundError", message |-> message,
     fk_name |-> fk_name, table_name |-> table_name]

AlreadyExistsError(message, constraint_name) ==
    [type |-> "AlreadyExistsError", message |-> message,
     constraint_name |-> constraint_name]

ValueError(message) == [type |-> "ValueError", message |-> message]

\* re.match of the pattern on the text: `.*` does not cross a line break, so
\* only a phrase on the first line matches.
fk_constraint_pattern_match(text) == text[1].fk

unique_constraint_pattern_match(text) == text[1].unique

\* dict.get(key, default)
DictGet(dict, key, default) == IF key \in DOMAIN dict THEN dict[key] ELSE default

not_found_error(svc) == <<svc.class_stem, "not found.">>

translate_integrity_error_unique_first(svc, err) ==
    LET fk == fk_constraint_pattern_match(err.text)
        uq == unique_constraint_pattern_match(err.text)
    IN  IF uq.given
        THEN AlreadyExistsError(
                 DictGet(svc.unique_violation_errors, uq.v, "Entity already exists."), uq.v)
        ELSE IF fk.given
        THEN FKNotFoundError(
                 DictGet(svc.fk_violation_errors, fk.v.fk_name, "Related object not found."),
                 fk.v.fk_name, fk.v.table_name)
        ELSE err

\* SessionExecutorMixin._translate_integrity_error
translate_integrity_error(svc, err) ==
    LET fk == fk_constraint_pattern_match(err.text)
        uq == unique_constraint_pattern_match(err.text)
    IN  IF fk.given
        THEN FKNotFoundError(
                 DictGet(svc.fk_violation_errors, fk.v.fk_name, "Related object not found."),
                 fk.v.fk_name, fk.v.table_name)
        ELSE IF uq.given
        THEN AlreadyExistsError(
                 DictGet(svc.unique_violation_errors, uq.v, "Entity already exists."), uq.v)
        ELSE err

\* SessionExecutorMixin._execute: only an IntegrityError is rewritten.
execute(svc, outcome) ==
    IF outcome.raised /\ outcome.exc.type = "IntegrityError"
    THEN Raise(translate_integrity_error(svc, outcome.exc))
    ELSE outcome

RECURSIVE UniqueFrom(_, _)
UniqueFrom(rows, seen) ==
    IF rows = <<>> THEN <<>>
    ELSE IF Head(rows) \in seen THEN UniqueFrom(Tail(rows), seen)
    ELSE <<Head(rows)>> \o UniqueFrom(Tail(rows), seen \cup {Head(rows)})

\* Result.unique(): the rows without repetitions, in order of first occurrence.
Unique(rows) == UniqueFrom(rows, {})

scalar_one_or_none_takes_first(rows) ==
    IF rows = <<>> THEN Return(None) ELSE Return(rows[1])

\* Result.scalar_one_or_none()
scalar_one_or_none(rows) ==
    IF Len(rows) > 1 THEN Raise(MultipleResultsFound)
    ELSE IF rows = <<>> THEN Return(None)
    ELSE Return(rows[1])

execute_for_one_no_unique(svc, outcome) ==
    LET result == execute(svc, outcome)
    IN  IF result.raised THEN result
        ELSE LET entity == scalar_one_or_none(result.rows)
             IN  IF entity.raised THEN entity
                 ELSE IF entity.value = None THEN Raise(NotFoundError(not_found_error(svc)))
                 ELSE entity

\* SessionExecutorMixin.execute_for_one
execute_for_one(svc, outcome) ==
    LET result == execute(svc, outcome)
    IN  IF result.raised THEN result
        ELSE LET entity == scalar_one_or_none(Unique(result.rows))
             IN  IF entity.raised THEN entity
                 ELSE IF entity.value = None THEN Raise(NotFoundError(not_found_error(svc)))
                 ELSE entity

\* SessionExecutorMixin.execute_optional
execute_optional(svc, outcome) ==
    LET result == execute(svc, outcome)
    IN  IF result.raised THEN result
        ELSE scalar_one_or_none(Unique(result.rows))

----------------------------------------------------------------------------
(* SpecExec: the executor on every outcome of a session call *)

\* An entity row of the storage.
Row(id, name) == [id |-> id, name |-> name, deleted_at |-> 0]

ExecRows == {Row(1, "a"), Row(2, "b")}

FkPhrases == {None, Some([table_name |-> "item", fk_name |-> "item_owner_fk"])}

UniquePhrases == {None, Some("item_name_key")}

ErrorLines == {Line(fk, uq) : fk \in FkPhrases, uq \in UniquePhrases}

ErrorTexts == {<<l>> : l \in ErrorLines} \cup {<<l1, l2>> : l1 \in ErrorLines, l2 \in ErrorLines}

StorageErrors == {IntegrityError(t) : t \in ErrorTexts} \cup {OperationalError}

SessionOutcomes ==
    {Rows(r) : r \in SeqsUpTo(ExecRows, MaxRows)} \cup {Raise(e) : e \in StorageErrors}

FkMessageTables == {<<>>, [k \in {"item_owner_fk"} |-> "Owner not found."]}

UniqueMessageTables == {<<>>, [k \in {"item_name_key"} |-> "Name is taken."]}

ExecServices ==
    {[class_stem |-> "Item", fk_violation_errors |-> f, unique_violation_errors |-> u] :
        f \in FkMessageTables, u \in UniqueMessageTables}

InitExec ==
    /\ args \in [svc : ExecServices, outcome : SessionOutcomes]
    /\ ret = NotCalled
    /\ IdleStorage

ExecuteForOne ==
    /\ ret = NotCalled
    /\ ret' = [op |-> "execute_for_one", out |-> execute_for_one(args.svc, args.outcome)]
    /\ UNCHANGED <<args, table, assoc, flow, service>>

ExecuteOptional ==
    /\ ret = NotCalled
    /\ ret' = [op |-> "execute_optional", out |-> execute_optional(args.svc, args.outcome)]
    /\ UNCHANGED <<args, table, assoc, flow, service>>

NextExec == ExecuteForOne \/ ExecuteOptional

SpecExec == InitExec /\ [][NextExec]_vars

ExecCalled == ret.op \in {"execute_for_one", "execute_optional"}

DistinctRows == Range(args.outcome.rows)

(* C6: execute_for_one raises NotFound when the statement yields zero rows
   after de-duplication and returns the entity when it yields exactly one;
   execute_optional returns the entity for one row and None, without raising,
   for zero rows. *)
C6_OneOrNone ==
    (ExecCalled /\ ~args.outcome.raised) =>
        /\ (ret.op = "execute_for_one" /\ Cardinality(DistinctRows) = 0) =>
               ret.out.raised /\ ret.out.exc.type = "NotFoundError"
        /\ (ret.op = "execute_optional" /\ Cardinality(DistinctRows) = 0) =>
               ~ret.out.raised /\ ret.out.value = None
        /\ Cardinality(DistinctRows) = 1 =>
               ~ret.out.raised /\ ret.out.value \in DistinctRows

C6_Witness ==
    /\ ret.op = "execute_for_one"
    /\ ~args.outcome.raised
    /\ args.outcome.rows = <<Row(1, "a"), Row(1, "a")>>
    /\ ret.out = Return(Row(1, "a"))

FirstLine == args.outcome.exc.text[1]

(* C7: when the execution raises a storage integrity violation, a text that
   matches the foreign-key pattern gives ForeignKeyNotFound with the constraint
   and table name, also when it matches the unique pattern too; otherwise a
   text that matches the unique pattern gives AlreadyExists with the constraint
   name; the message is the one configured for the constraint, else the
   generic one; a text matching neither is re-raised unchanged. *)
C7_Translation ==
    (ExecCalled /\ args.outcome.raised /\ args.outcome.exc.type = "IntegrityError") =>
        /\ ret.out.raised
        /\ FirstLine.fk.given =>
            /\ ret.out.exc.type = "FKNotFoundError"
            /\ ret.out.exc.fk_name = FirstLine.fk.v.fk_name
            /\ ret.out.exc.table_name = FirstLine.fk.v.table_name
            /\ ret.out.exc.message =
                   IF FirstLine.fk.v.fk_name \in DOMAIN args.svc.fk_violation_errors
                   THEN args.svc.fk_violation_errors[FirstLine.fk.v.fk_name]
                   ELSE "Related object not found."
        /\ (~FirstLine.fk.given /\ FirstLine.unique.given) =>
            /\ ret.out.exc.type = "AlreadyExistsError"
            /\ ret.out.exc.constraint_name = FirstLine.unique.v
            /\ ret.out.exc.message =
                   IF FirstLine.unique.v \in DOMAIN args.svc.unique_violation_errors
                   THEN args.svc.unique_violation_errors[FirstLine.unique.v]
                   ELSE "Entity already exists."
        /\ (~FirstLine.fk.given /\ ~FirstLine.unique.given) =>
               ret.out.exc = args.outcome.exc

C7_Witness ==
    /\ ret.op = "execute_for_one"
    /\ args.outcome.raised
    /\ args.outcome.exc.type = "IntegrityError"
    /\ FirstLine.fk.given
    /\ FirstLine.unique.given
    /\ args.svc.fk_violation_errors = <<>>
    /\ ret.out.exc = FKNotFoundError("Related object not found.", "item_owner_fk", "item")

----------------------------------------------------------------------------
(* Serialization: SerializerMixin *)

\* The `False` a caller passes as schema to ask for the raw row.
PyFalse == "False"

ValidationError(schema) == [type |-> "ValidationError", schema |-> schema]

AttributeError == [type |-> "AttributeError"]

\* The response schemas: ItemOut accepts every row, NamedA only rows named "a".
SchemaNames == {"ItemOut", "NamedA"}

\* schema.model_validate(obj) of a response schema: the schema collaborator.
SchemaValidate(schema, obj) ==
    IF schema = "NamedA" /\ obj.name # "a" THEN Raise(ValidationError(schema))
    ELSE Return([schema |-> schema, id |-> obj.id, name |-> obj.name])

\* `schema.model_validate(obj)` as the mixin evaluates it: False has no such
\* attribute.
model_validate(schema, obj) ==
    IF schema = PyFalse THEN Raise(AttributeError) ELSE SchemaValidate(schema, obj)

SchemaRequiredError(attribute) ==
    ValueError(<<"schema is required for serialized methods; use *_raw or set", attribute>>)

\* SerializerMixin.serialize_one of the mixins package.
serialize_one(svc, obj, schema) ==
    LET chosen == IF ~schema.given THEN svc.detail_schema ELSE schema
    IN  IF ~chosen.given THEN Raise(SchemaRequiredError("detail_schema"))
        ELSE model_validate(chosen.v, obj)

\* SerializerMixin.serialize_one of services/mixins.py: the raw-passthrough
\* variant.
serialize_one_passthrough(svc, obj, schema) ==
    IF schema = Some(PyFalse) THEN Return(obj)
    ELSE LET chosen == IF ~schema.given THEN svc.detail_schema ELSE schema
         IN  IF ~chosen.given THEN Return(obj) ELSE model_validate(chosen.v, obj)

\* `a or b` on two optional schemas.
OrElse(a, b) == IF a.given THEN a ELSE b

\* The list comprehension over model_validate: the first failure ends it.
ValidateAll(schema, objs) ==
    LET results == [i \in 1..Len(objs) |-> model_validate(schema, objs[i])]
        failed == {i \in 1..Len(objs) : results[i].raised}
    IN  IF failed # {} THEN results[CHOOSE i \in failed : \A j \in failed : i <= j]
        ELSE Return([i \in 1..Len(objs) |-> results[i].value])

\* SerializerMixin.serialize_many of the mixins package.
serialize_many(svc, objs, schema, prefer_list_schema) ==
    LET chosen == IF ~schema.given /\ prefer_list_schema
                  THEN OrElse(svc.list_schema, svc.detail_schema) ELSE schema
    IN  IF ~chosen.given THEN Raise(SchemaRequiredError("list_schema"))
        ELSE ValidateAll(chosen.v, objs)

----------------------------------------------------------------------------
(* SpecSerialize: the serializers on every configuration, row and schema *)

SchemaArgs == {None, Some(PyFalse)} \cup {Some(n) : n \in SchemaNames}

ConfiguredSchemas == {None} \cup {Some(n) : n \in SchemaNames}

SerializerServices == [detail_schema : ConfiguredSchemas, list_schema : ConfiguredSchemas]

InitSerialize ==
    /\ args \in [svc : SerializerServices, obj : ExecRows,
                 objs : SeqsUpTo(ExecRows, MaxRows), schema : SchemaArgs]
    /\ ret = NotCalled
    /\ IdleStorage

SerializeOne ==
    /\ ret = NotCalled
    /\ ret' = [op |-> "serialize_one", variant |-> "mixins/serializer.py",
               out |-> serialize_one(args.svc, args.obj, args.schema)]
    /\ UNCHANGED <<args, table, assoc, flow, service>>

SerializeOnePassthrough ==
    /\ ret = NotCalled
    /\ ret' = [op |-> "serialize_one", variant |-> "mixins.py",
               out |-> serialize_one_passthrough(args.svc, args.obj, args.schema)]
    /\ UNCHANGED <<args, table, assoc, flow, service>>

SerializeMany ==
    /\ ret = NotCalled
    /\ ret' = [op |-> "serialize_many",
               out |-> serialize_many(args.svc, args.objs, args.schema, TRUE)]
    /\ UNCHANGED <<args, table, assoc, flow, service>>

NextSerialize == SerializeOne \/ SerializeOnePassthrough \/ SerializeMany

SpecSerialize == InitSerialize /\ [][NextSerialize]_vars

\* C17: serialize_one returns the row itself when the call passes schema=False;
\* otherwise it returns what the call's schema, or else the configured detail
\* schema, makes of the row, a failure of that schema included; with no schema
\* passed and none configured it returns the row itself.
C17_SerializeOne ==
    ret.op = "serialize_one" =>
        ret.out =
            IF args.schema = Some(PyFalse) THEN Return(args.obj)
            ELSE IF args.schema.given THEN SchemaValidate(args.schema.v, args.obj)
            ELSE IF args.svc.detail_schema.given
            THEN SchemaValidate(args.svc.detail_schema.v, args.obj)
            ELSE Return(args.obj)

----------------------------------------------------------------------------
(* Storage: the entity table and the association tables *)

MaxLen == 2

PKs == {1, 2}

Names == {"a", "b"}

TargetIds == {1, 2, 3}

\* ManyToManyRelation declarations of the service.
TagsRelation ==
    [payload_field |-> "tag_ids", association_model |-> "item_tag",
     left_key |-> "item_id", right_key |-> "tag_id"]

GroupsRelation ==
    [payload_field |-> "group_ids", association_model |-> "item_group",
     left_key |-> "item_id", right_key |-> "group_id"]

AssocModels == {"item_tag", "item_group"}

SyncModes == {"replace", "add", "remove"}

\* The repository of the service: Repository(model) with its class defaults.
ItemRepo ==
    [model |-> ItemModel, default_filters |-> <<>>, default_options |-> <<>>,
     default_ordering |-> <<>>, fallback_sort_attribute |-> "id", pk_attribute |-> "id"]

\* A RepositoryService subclass with two declared relations.
ItemService(sync_mode) ==
    [class_stem |-> "Item", fk_violation_errors |-> <<>>, unique_violation_errors |-> <<>>,
     many_to_many_relations |-> <<TagsRelation, GroupsRelation>>,
     m2m_sync_mode |-> sync_mode, repo |-> ItemRepo,
     detail_schema |-> None, list_schema |-> None]

NoRows == [p \in PKs \X TargetIds |-> 0]

RowsOf(pairs) == [p \in PKs \X TargetIds |-> IF p \in pairs THEN 1 ELSE 0]

\* The target ids associated with an owner in one association table.
TargetsOf(a, model, owner_id) == {t \in TargetIds : a[model][<<owner_id, t>>] > 0}

\* Statements on an association table, as sync_m2m_relations builds them.
AssocDelete(relation, owner_id, targets) ==
    [kind |-> "delete", model |-> relation.association_model,
     owner |-> owner_id, targets |-> targets]

AssocSelect(relation, owner_id, targets) ==
    [kind |-> "select", model |-> relation.association_model,
     owner |-> owner_id, targets |-> Some(targets)]

AssocInsert(relation, rows) ==
    [kind |-> "insert", model |-> relation.association_model,
     left_key |-> relation.left_key, right_key |-> relation.right_key, rows |-> rows]

build_row_keys_swapped(relation, owner_id, target_id) ==
    [k \in {relation.left_key, relation.right_key} |->
        IF k = relation.left_key THEN target_id ELSE owner_id]

\* ManyToManyRelation.build_row without a row_factory.
build_row(relation, owner_id, target_id) ==
    [k \in {relation.left_key, relation.right_key} |->
        IF k = relation.left_key THEN owner_id ELSE target_id]

\* The association tables after the storage ran the statement.
AssocAfter(a, stmt) ==
    CASE stmt.kind = "delete" ->
            [a EXCEPT ![stmt.model] =
                [p \in DOMAIN @ |->
                    IF p[1] = stmt.owner
                       /\ (stmt.targets.given => p[2] \in Range(stmt.targets.v))
                    THEN 0 ELSE @[p]]]
      [] stmt.kind = "insert" ->
            [a EXCEPT ![stmt.model] =
                [p \in DOMAIN @ |->
                    @[p] + Cardinality({i \in 1..Len(stmt.rows) :
                                /\ stmt.rows[i][stmt.left_key] = p[1]
                                /\ stmt.rows[i][stmt.right_key] = p[2]})]]
      [] OTHER -> a

\* The scalars a select on an association table returns, as a set.
AssocScalars(a, stmt) ==
    {t \in Range(stmt.targets.v) : a[stmt.model][<<stmt.owner, t>>] > 0}

\* The failures the storage may answer a statement with.
FkViolation ==
    IntegrityError(<<Line(Some([table_name |-> "item_tag", fk_name |-> "item_tag_tag_fk"]), None)>>)

UniqueViolation == IntegrityError(<<Line(None, Some("item_tag_pkey"))>>)

StorageFailures == {FkViolation, UniqueViolation, OperationalError}

----------------------------------------------------------------------------
(* Many-to-many reconciler: ManyToManySyncMixin *)

Dedup_keeps_repeats(ids) == ids

\* list(dict.fromkeys(ids)): first occurrences, in order.
Dedup(ids) == UniqueFrom(ids, {})

InvalidModeError == ValueError("m2m sync mode must be replace, add, or remove.")

\* The loop of sync_m2m_relations from relation i up to its next statement.
RECURSIVE SyncLoop(_, _, _, _, _)
SyncLoop_absent_as_empty(svc, owner_id, relation_payload, sync_mode, i) ==
    IF i > Len(svc.many_to_many_relations) THEN [finished |-> TRUE]
    ELSE LET relation == svc.many_to_many_relations[i]
             target_ids == Dedup(OrEmpty(DictGet(relation_payload, relation.payload_field, None)))
         IN  IF sync_mode = "replace"
             THEN [finished |-> FALSE, at |-> "replace_delete", idx |-> i,
                   target_ids |-> target_ids,
                   stmt |-> AssocDelete(relation, owner_id, None)]
             ELSE IF target_ids = <<>>
             THEN SyncLoop(svc, owner_id, relation_payload, sync_mode, i + 1)
             ELSE IF sync_mode = "remove"
             THEN [finished |-> FALSE, at |-> "remove_delete", idx |-> i,
                   target_ids |-> target_ids,
                   stmt |-> AssocDelete(relation, owner_id, Some(target_ids))]
             ELSE [finished |-> FALSE, at |-> "add_select", idx |-> i,
                   target_ids |-> target_ids,
                   stmt |-> AssocSelect(relation, owner_id, target_ids)]

SyncLoop(svc, owner_id, relation_payload, sync_mode, i) ==
    IF i > Len(svc.many_to_many_relations) THEN [finished |-> TRUE]
    ELSE LET relation == svc.many_to_many_relations[i]
         IN  IF relation.payload_field \notin DOMAIN relation_payload
             THEN SyncLoop(svc, owner_id, relation_payload, sync_mode, i + 1)
             ELSE LET target_ids == Dedup(OrEmpty(relation_payload[relation.payload_field]))
                  IN  IF sync_mode = "replace"
                      THEN [finished |-> FALSE, at |-> "replace_delete", idx |-> i,
                            target_ids |-> target_ids,
                            stmt |-> AssocDelete(relation, owner_id, None)]
                      ELSE IF target_ids = <<>>
                      THEN SyncLoop(svc, owner_id, relation_payload, sync_mode, i + 1)
                      ELSE IF sync_mode = "remove"
                      THEN [finished |-> FALSE, at |-> "remove_delete", idx |-> i,
                            target_ids |-> target_ids,
                            stmt |-> AssocDelete(relation, owner_id, Some(target_ids))]
                      ELSE [finished |-> FALSE, at |-> "add_select", idx |-> i,
                            target_ids |-> target_ids,
                            stmt |-> AssocSelect(relation, owner_id, target_ids)]

\* The insert that ends one relation's turn.
SyncInsert(svc, owner_id, i, target_ids) ==
    LET relation == svc.many_to_many_relations[i]
        rows == [n \in 1..Len(target_ids) |-> build_row(relation, owner_id, target_ids[n])]
    IN  [finished |-> FALSE, at |-> "insert", idx |-> i, target_ids |-> target_ids,
         stmt |-> AssocInsert(relation, rows)]

SelectNotIn(ids, existing_set) == SelectSeq(ids, LAMBDA t : t \notin existing_set)

\* sync_m2m_relations resumed after the statement at position `at` returned.
SyncResume_add_all(svc, owner_id, relation_payload, sync_mode, at, i, target_ids, scalars) ==
    CASE at = "replace_delete" ->
            IF target_ids = <<>>
            THEN SyncLoop(svc, owner_id, relation_payload, sync_mode, i + 1)
            ELSE SyncInsert(svc, owner_id, i, target_ids)
      [] at = "add_select" -> SyncInsert(svc, owner_id, i, target_ids)
      [] OTHER -> SyncLoop(svc, owner_id, relation_payload, sync_mode, i + 1)

SyncResume_remove_inserts(svc, owner_id, relation_payload, sync_mode, at, i, target_ids, scalars) ==
    CASE at = "replace_delete" ->
            IF target_ids = <<>>
            THEN SyncLoop(svc, owner_id, relation_payload, sync_mode, i + 1)
            ELSE SyncInsert(svc, owner_id, i, target_ids)
      [] at = "add_select" ->
            LET new_ids == SelectNotIn(target_ids, scalars)
            IN  IF new_ids = <<>>
                THEN SyncLoop(svc, owner_id, relation_payload, sync_mode, i + 1)
                ELSE SyncInsert(svc, owner_id, i, new_ids)
      [] at = "remove_delete" -> SyncInsert(svc, owner_id, i, target_ids)
      [] OTHER -> SyncLoop(svc, owner_id, relation_payload, sync_mode, i + 1)

SyncResume_replace_keeps_cleared(svc, owner_id, relation_payload, sync_mode, at, i, target_ids, scalars) ==
    CASE at = "add_select" ->
            LET new_ids == SelectNotIn(target_ids, scalars)
            IN  IF new_ids = <<>>
                THEN SyncLoop(svc, owner_id, relation_payload, sync_mode, i + 1)
                ELSE SyncInsert(svc, owner_id, i, new_ids)
      [] OTHER -> SyncLoop(svc, owner_id, relation_payload, sync_mode, i + 1)

SyncResume(svc, owner_id, relation_payload, sync_mode, at, i, target_ids, scalars) ==
    CASE at = "replace_delete" ->
            IF target_ids = <<>>
            THEN SyncLoop(svc, owner_id, relation_payload, sync_mode, i + 1)
            ELSE SyncInsert(svc, owner_id, i, target_ids)
      [] at = "add_select" ->
            LET new_ids == SelectNotIn(target_ids, scalars)
            IN  IF new_ids = <<>>
                THEN SyncLoop(svc, owner_id, relation_payload, sync_mode, i + 1)
                ELSE SyncInsert(svc, owner_id, i, new_ids)
      [] OTHER -> SyncLoop(svc, owner_id, relation_payload, sync_mode, i + 1)

\* A flow between two calls.
Idle == [pc |-> "idle"]

\* The flow record while a reconciliation is at, or past, position `next`;
\* `final` is what the verb returns once the loop ends.
SyncFlow(fl, next, final) ==
    IF next.finished
    THEN [fl EXCEPT !.pc = "done", !.result = final]
    ELSE [fl EXCEPT !.pc = "sync", !.stmt = next.stmt, !.at = next.at, !.idx = next.idx,
                    !.target_ids = next.target_ids, !.final = final]

\* sync_m2m_relations up to its first statement: the mode is checked first.
SyncEnter(svc, fl, owner_id, relation_payload, mode, final) ==
    LET sync_mode == IF mode.given THEN mode.v ELSE svc.m2m_sync_mode
        entered == [fl EXCEPT !.owner = owner_id, !.relation_payload = relation_payload,
                              !.sync_mode = sync_mode]
    IN  IF sync_mode \notin SyncModes
        THEN [entered EXCEPT !.pc = "done", !.result = Raise(InvalidModeError)]
        ELSE SyncFlow(entered, SyncLoop(svc, owner_id, relation_payload, sync_mode, 1), final)

\* A call record at its start, before any statement.
NewCall(verb, call_args) ==
    [pc |-> "idle", verb |-> verb, args |-> call_args, stmt |-> None, at |-> "",
     idx |-> 0, target_ids |-> <<>>, final |-> Return(None),
     owner |-> 0, relation_payload |-> <<>>, sync_mode |-> "",
     trace |-> <<>>, result |-> Return(None),
     pre |-> [table |-> table, assoc |-> assoc]]

\* sync_m2m_relations called directly.
CallSync(f, owner_id, relation_payload, mode) ==
    /\ flow[f].pc = "idle"
    /\ flow' = [flow EXCEPT ![f] =
           SyncEnter(service,
                     NewCall("sync_m2m_relations",
                             [owner_id |-> owner_id, relation_payload |-> relation_payload,
                              mode |-> mode]),
                     owner_id, relation_payload, mode, Return(None))]
    /\ UNCHANGED <<args, ret, table, assoc, service>>

ExecSync_translates(f) ==
    /\ flow[f].pc = "sync"
    /\ \E failure \in {None} \cup {Some(e) : e \in StorageFailures} :
        LET fl == flow[f]
            logged == [fl EXCEPT !.trace = Append(@, [stmt |-> fl.stmt, ok |-> ~failure.given])]
        IN  IF failure.given
            THEN /\ flow' = [flow EXCEPT ![f] =
                        [logged EXCEPT !.pc = "done",
                                       !.result = execute(service, Raise(failure.v))]]
                 /\ assoc' = assoc
            ELSE /\ assoc' = AssocAfter(assoc, fl.stmt)
                 /\ flow' = [flow EXCEPT ![f] =
                        SyncFlow(logged,
                                 SyncResume(service, fl.owner, fl.relation_payload,
                                            fl.sync_mode, fl.at, fl.idx, fl.target_ids,
                                            IF fl.stmt.kind = "select"
                                            THEN AssocScalars(assoc, fl.stmt) ELSE {}),
                                 fl.final)]
    /\ UNCHANGED <<args, ret, table, service>>

ExecSync_rolls_back(f) ==
    /\ flow[f].pc = "sync"
    /\ \E failure \in {None} \cup {Some(e) : e \in StorageFailures} :
        LET fl == flow[f]
            logged == [fl EXCEPT !.trace = Append(@, [stmt |-> fl.stmt, ok |-> ~failure.given])]
        IN  IF failure.given
            THEN /\ flow' = [flow EXCEPT ![f] =
                        [logged EXCEPT !.pc = "done", !.result = Raise(failure.v)]]
                 /\ assoc' = fl.pre.assoc
                 /\ table' = fl.pre.table
            ELSE /\ assoc' = AssocAfter(assoc, fl.stmt)
                 /\ table' = table
                 /\ flow' = [flow EXCEPT ![f] =
                        SyncFlow(logged,
                                 SyncResume(service, fl.owner, fl.relation_payload,
                                            fl.sync_mode, fl.at, fl.idx, fl.target_ids,
                                            IF fl.stmt.kind = "select"
                                            THEN AssocScalars(assoc, fl.stmt) ELSE {}),
                                 fl.final)]
    /\ UNCHANGED <<args, ret, service>>

\* One round-trip of the reconciliation: the storage runs the pending statement
\* or fails it, and the flow runs on to its next statement or to its end.
ExecSync(f) ==
    /\ flow[f].pc = "sync"
    /\ \E failure \in {None} \cup {Some(e) : e \in StorageFailures} :
        LET fl == flow[f]
            logged == [fl EXCEPT !.trace = Append(@, [stmt |-> fl.stmt, ok |-> ~failure.given])]
        IN  IF failure.given
            THEN /\ flow' = [flow EXCEPT ![f] =
                        [logged EXCEPT !.pc = "done", !.result = Raise(failure.v)]]
                 /\ assoc' = assoc
            ELSE /\ assoc' = AssocAfter(assoc, fl.stmt)
                 /\ flow' = [flow EXCEPT ![f] =
                        SyncFlow(logged,
                                 SyncResume(service, fl.owner, fl.relation_payload,
                                            fl.sync_mode, fl.at, fl.idx, fl.target_ids,
                                            IF fl.stmt.kind = "select"
                                            THEN AssocScalars(assoc, fl.stmt) ELSE {}),
                                 fl.final)]
    /\ UNCHANGED <<args, ret, table, service>>

----------------------------------------------------------------------------
(* Statement builders of the repository *)

default_limit == 50

ConfigurationError == [type |-> "ConfigurationError"]

\* Python truthiness of an optional sequence.
Truthy(opt) == opt.given /\ opt.v # <<>>

\* notora.utils.validation.validate_exclusive_presence: both values set.
validate_exclusive_presence(first, second) ==
    IF Truthy(first) /\ Truthy(second) THEN Raise(ConfigurationError) ELSE Return(None)

\* `lambda _: self.pk_column == pk`
PkFilter(repo, pk) ==
    [callable |-> TRUE,
     fn |-> [m \in Models |->
                Clause(repo.model.name,
                       [op |-> "eq", attr |-> repo.pk_attribute, value |-> pk], "")]]

\* SelectableMixin.select
select(repo, options) == apply_options(repo, Select(repo.model), options)

\* ListableMixin.list
list(repo, filters, limit, offset, ordering, options, base_query) ==
    LET stmt0 == IF base_query.given THEN base_query.v ELSE select(repo, options)
        stmt1 == apply_filters(repo, stmt0, filters)
        stmt2 == apply_ordering(repo, stmt1, ordering)
        limit_value == IF limit.given THEN limit.v ELSE default_limit
    IN  [stmt2 EXCEPT !.limit = Some(limit_value), !.offset = Some(offset)]

\* RetrievableMixin.retrieve
retrieve(repo, pk, options) ==
    list(repo, Some(<<PkFilter(repo, pk)>>), Some(1), 0, None, options, None)

\* RetrievableMixin.retrieve_one_by: no limit and no offset.
retrieve_one_by(repo, filters, ordering, options) ==
    LET stmt0 == select(repo, options)
        stmt1 == apply_filters(repo, stmt0, filters)
    IN  apply_ordering(repo, stmt1, ordering)

count_call_filters_only(repo, filters) ==
    LET custom == OrEmpty(filters)
    IN  [kind |-> "count", model |-> repo.model.name,
         where |-> [i \in 1..Len(custom) |-> resolve_filter(repo, custom[i])]]

\* CountableMixin.count
count(repo, filters) ==
    apply_filters(repo, [kind |-> "count", model |-> repo.model.name, where |-> <<>>], filters)

\* CreatableMixin.create
create(repo, payload, options) ==
    LET stmt == [kind |-> "insert", model |-> repo.model.name, values |-> payload,
                 on_conflict |-> "none", returning |-> TRUE, options |-> <<>>]
    IN  apply_options(repo, stmt, options)

\* UpdateMixin.update_by
update_by(repo, payload, filters, options) ==
    LET stmt0 == [kind |-> "update", model |-> repo.model.name, values |-> payload,
                  where |-> <<>>, returning |-> FALSE, options |-> <<>>]
        stmt1 == apply_filters(repo, stmt0, filters)
        stmt2 == [stmt1 EXCEPT !.returning = TRUE]
    IN  apply_options(repo, stmt2, options)

update_pk_filter_first(repo, pk, payload, options) ==
    LET stmt == update_by(repo, payload, None, options)
    IN  [stmt EXCEPT !.where = <<resolve_filter(repo, PkFilter(repo, pk))>> \o @]

\* UpdateMixin.update
update(repo, pk, payload, options) ==
    update_by(repo, payload, Some(<<PkFilter(repo, pk)>>), options)

\* DeleteMixin.delete_by
delete_by(repo, filters, options) ==
    LET stmt0 == [kind |-> "delete", model |-> repo.model.name,
                  where |-> <<>>, returning |-> FALSE, options |-> <<>>]
        stmt1 == apply_filters(repo, stmt0, filters)
        stmt2 == [stmt1 EXCEPT !.returning = TRUE]
    IN  apply_options(repo, stmt2, options)

\* DeleteMixin.delete
delete(repo, pk, options) == delete_by(repo, Some(<<PkFilter(repo, pk)>>), options)

\* `func.now()`: an expression the storage evaluates when the statement runs.
StorageNow == [fn |-> "now"]

soft_delete_by_removes(repo, filters, options) == delete_by(repo, filters, options)

\* SoftDeleteMixin.soft_delete_by
soft_delete_by(repo, filters, options) ==
    update_by(repo, [k \in {repo.deleted_attribute} |-> StorageNow], filters, options)

\* SoftDeleteMixin.soft_delete
soft_delete(repo, pk, options) ==
    soft_delete_by(repo, Some(<<PkFilter(repo, pk)>>), options)

update_payload_exclude_ignored(payload, update_only, update_exclude) ==
    IF update_only.given
    THEN [k \in DOMAIN payload \cap Range(update_only.v) |-> payload[k]]
    ELSE payload

\* The narrowed update clause of an upsert.
update_payload(payload, update_only, update_exclude) ==
    IF update_only.given
    THEN [k \in DOMAIN payload \cap Range(update_only.v) |-> payload[k]]
    ELSE IF update_exclude.given
    THEN [k \in DOMAIN payload \ Range(update_exclude.v) |-> payload[k]]
    ELSE payload

upsert_unvalidated(repo, payload, conflict_columns, conflict_where, update_only, update_exclude, options) ==
    LET clauses == merge_filters(repo, conflict_where)
        stmt == [kind |-> "insert", model |-> repo.model.name, values |-> payload,
                 on_conflict |-> "update",
                 index_elements |-> IF Truthy(conflict_columns) THEN conflict_columns.v
                                    ELSE <<repo.pk_attribute>>,
                 index_where |-> IF clauses # <<>> THEN Some(clauses) ELSE None,
                 set_ |-> update_payload(payload, update_only, update_exclude),
                 returning |-> TRUE, options |-> <<>>]
    IN  Return(apply_options(repo, stmt, options))

\* UpsertableMixin.upsert: the statement, or the error raised while building it.
upsert(repo, payload, conflict_columns, conflict_where, update_only, update_exclude, options) ==
    LET valid == validate_exclusive_presence(update_only, update_exclude)
        clauses == merge_filters(repo, conflict_where)
        stmt == [kind |-> "insert", model |-> repo.model.name, values |-> payload,
                 on_conflict |-> "update",
                 index_elements |-> IF Truthy(conflict_columns) THEN conflict_columns.v
                                    ELSE <<repo.pk_attribute>>,
                 index_where |-> IF clauses # <<>> THEN Some(clauses) ELSE None,
                 set_ |-> update_payload(payload, update_only, update_exclude),
                 returning |-> TRUE, options |-> <<>>]
    IN  IF valid.raised THEN valid ELSE Return(apply_options(repo, stmt, options))

----------------------------------------------------------------------------
(* The entity table under a statement *)

Holds(clause, row) == row[clause.expr.attr] = clause.expr.value

\* The primary keys of the stored rows every where-clause holds for.
Matching(t, where) ==
    {pk \in PKs : t[pk].given /\ \A i \in 1..Len(where) : Holds(where[i], t[pk].v)}

RECURSIVE Ascending(_)
Ascending(S) ==
    IF S = {} THEN <<>>
    ELSE LET least == CHOOSE x \in S : \A y \in S : x <= y
         IN  <<least>> \o Ascending(S \ {least})

Reverse(q) == [i \in 1..Len(q) |-> q[Len(q) + 1 - i]]

\* A row with the given column values written over it.
Written(row, values) ==
    [a \in DOMAIN row |-> IF a \in DOMAIN values THEN values[a] ELSE row[a]]

\* The table after the storage ran the statement.
TableAfter(t, stmt) ==
    CASE stmt.kind = "update" ->
            [pk \in PKs |-> IF pk \in Matching(t, stmt.where)
                            THEN Some(Written(t[pk].v, stmt.values)) ELSE t[pk]]
      [] stmt.kind = "delete" ->
            [pk \in PKs |-> IF pk \in Matching(t, stmt.where) THEN None ELSE t[pk]]
      [] stmt.kind = "insert" ->
            [t EXCEPT ![stmt.values["id"]] =
                IF @.given /\ stmt.on_conflict = "update"
                THEN Some(Written(@.v, stmt.set_))
                ELSE Some(Written(Row(0, ""), stmt.values))]
      [] OTHER -> t

\* The violation of the primary key an insert without a conflict clause meets.
PkViolation == IntegrityError(<<Line(None, Some("item_pkey"))>>)

\* The rejection of a negative LIMIT or OFFSET by the storage.
DataError == [type |-> "DataError", text |-> <<Line(None, None)>>]

NegativeWindow(stmt) ==
    \/ stmt.limit.given /\ stmt.limit.v < 0
    \/ stmt.offset.given /\ stmt.offset.v < 0

\* The columns the storage types as timestamps; 0 stands for NULL.
TimestampColumns == {"deleted_at"}

MaxClock == 2

\* What now() can evaluate to when the storage runs the statement: a time not
\* before any timestamp it stored (0 for a statement without now()).
Clock(t, stmt) ==
    IF stmt.kind = "update"
       /\ \E k \in DOMAIN stmt.values \cap TimestampColumns : stmt.values[k] = StorageNow
    THEN {n \in 1..MaxClock : \A pk \in PKs : t[pk].given => t[pk].v.deleted_at <= n}
    ELSE {0}

\* The statement with its now() expressions evaluated.
Evaluated(stmt, now) ==
    IF stmt.kind = "update"
    THEN LET values == stmt.values
         IN  [stmt EXCEPT !.values =
                 [k \in DOMAIN values |->
                     IF k \in TimestampColumns /\ values[k] = StorageNow
                     THEN now ELSE values[k]]]
    ELSE stmt

\* The answers the storage can give a statement on the entity table: a failure
\* of its own, a violation the statement causes, or else its execution.
TableAnswers(t, stmt) ==
    {Some(e) : e \in StorageFailures} \cup
    (IF stmt.kind = "insert" /\ stmt.on_conflict = "none" /\ t[stmt.values["id"]].given
     THEN {Some(PkViolation)}
     ELSE IF stmt.kind = "select" /\ NegativeWindow(stmt) THEN {Some(DataError)}
     ELSE {None})

\* The rows the statement returns, in storage order.
TableRows(t, stmt) ==
    CASE stmt.kind = "select" ->
            LET ids == Ascending(Matching(t, stmt.where))
                ordered == IF stmt.order_by # <<>> /\ stmt.order_by[1].dir = "desc"
                           THEN Reverse(ids) ELSE ids
                first == IF stmt.offset.given THEN stmt.offset.v + 1 ELSE 1
                last == IF stmt.limit.given
                        THEN Min(Len(ordered), first - 1 + stmt.limit.v) ELSE Len(ordered)
                window == SubSeq(ordered, first, last)
            IN  [i \in 1..Len(window) |-> t[window[i]].v]
      [] stmt.kind = "insert" ->
            <<TableAfter(t, stmt)[stmt.values["id"]].v>>
      [] OTHER ->
            LET ids == Ascending(Matching(t, stmt.where))
            IN  [i \in 1..Len(ids) |->
                    IF stmt.kind = "update" THEN TableAfter(t, stmt)[ids[i]].v
                    ELSE t[ids[i]].v]

----------------------------------------------------------------------------
(* Service verbs *)

\* PayloadMixin._dump_payload of a dict.
dump_payload(data) == data

\* ManyToManySyncMixin.split_m2m_payload: the payload of the primary write, the
\* relation fields, and the mapping it was given as the call leaves it.
split_m2m_payload(svc, payload) ==
    IF svc.many_to_many_relations = <<>>
    THEN [data |-> payload, relation_payload |-> <<>>, payload |-> payload]
    ELSE LET fields == {svc.many_to_many_relations[i].payload_field :
                            i \in 1..Len(svc.many_to_many_relations)} \cap DOMAIN payload
         IN  [data |-> [k \in DOMAIN payload \ fields |-> payload[k]],
              relation_payload |-> [k \in fields |-> Some(OrEmpty(payload[k]))],
              payload |-> payload]

\* RepositoryAccessorMixin._extract_pk
extract_pk(svc, entity) == entity[svc.repo.pk_attribute]

\* The flow record while the verb's own statement waits for the storage.
Primary(fl, stmt, at, relation_payload) ==
    [fl EXCEPT !.pc = "primary", !.stmt = stmt, !.at = at,
               !.relation_payload = relation_payload]

\* RetrievalServiceMixin.retrieve_raw
CallRetrieve(f, pk) ==
    /\ flow[f].pc = "idle"
    /\ flow' = [flow EXCEPT ![f] =
           Primary(NewCall("retrieve_raw", [pk |-> pk]),
                   retrieve(service.repo, pk, None), "for_one", <<>>)]
    /\ UNCHANGED <<args, ret, table, assoc, service>>

\* CreateServiceMixin.create_raw
CallCreate(f, data) ==
    /\ flow[f].pc = "idle"
    /\ LET parts == split_m2m_payload(service, dump_payload(data))
       IN  flow' = [flow EXCEPT ![f] =
               Primary(NewCall("create_raw", [data |-> data]),
                       create(service.repo, parts.data, None),
                       "for_one_sync", parts.relation_payload)]
    /\ UNCHANGED <<args, ret, table, assoc, service>>

\* UpdateServiceMixin.update_raw
CallUpdate(f, pk, data) ==
    /\ flow[f].pc = "idle"
    /\ LET parts == split_m2m_payload(service, dump_payload(data))
       IN  flow' = [flow EXCEPT ![f] =
               Primary(NewCall("update_raw", [pk |-> pk, data |-> data]),
                       update(service.repo, pk, parts.data, None),
                       "for_one_sync", parts.relation_payload)]
    /\ UNCHANGED <<args, ret, table, assoc, service>>

\* DeleteServiceMixin.delete
CallDelete(f, pk) ==
    /\ flow[f].pc = "idle"
    /\ flow' = [flow EXCEPT ![f] =
           Primary(NewCall("delete", [pk |-> pk]),
                   delete(service.repo, pk, None), "discard", <<>>)]
    /\ UNCHANGED <<args, ret, table, assoc, service>>

\* UpsertServiceMixin.upsert_raw
CallUpsert(f, data, update_only, update_exclude) ==
    /\ flow[f].pc = "idle"
    /\ LET parts == split_m2m_payload(service, dump_payload(data))
           query == upsert(service.repo, parts.data, None, None,
                           update_only, update_exclude, None)
           call == NewCall("upsert_raw",
                           [data |-> data, update_only |-> update_only,
                            update_exclude |-> update_exclude])
       IN  flow' = [flow EXCEPT ![f] =
               IF query.raised
               THEN [call EXCEPT !.pc = "done", !.result = query]
               ELSE Primary(call, query.value, "for_one_sync", parts.relation_payload)]
    /\ UNCHANGED <<args, ret, table, assoc, service>>

\* RetrievalServiceMixin.retrieve_one_raw_by
CallRetrieveOneBy(f, filters, ordering) ==
    /\ flow[f].pc = "idle"
    /\ flow' = [flow EXCEPT ![f] =
           Primary(NewCall("retrieve_one_raw_by", [filters |-> filters, ordering |-> ordering]),
                   retrieve_one_by(service.repo, filters, ordering, None), "for_one", <<>>)]
    /\ UNCHANGED <<args, ret, table, assoc, service>>

\* UpdateByFilterServiceMixin.update_by_raw: the whole payload is written, no
\* relation field is split off and nothing is reconciled.
CallUpdateBy(f, filters, data) ==
    /\ flow[f].pc = "idle"
    /\ flow' = [flow EXCEPT ![f] =
           Primary(NewCall("update_by_raw", [filters |-> filters, data |-> data]),
                   update_by(service.repo, dump_payload(data), filters, None),
                   "for_one", <<>>)]
    /\ UNCHANGED <<args, ret, table, assoc, service>>

\* SoftDeleteServiceMixin.soft_delete
CallSoftDelete(f, pk) ==
    /\ flow[f].pc = "idle"
    /\ flow' = [flow EXCEPT ![f] =
           Primary(NewCall("soft_delete", [pk |-> pk]),
                   soft_delete(service.repo, pk, None), "discard", <<>>)]
    /\ UNCHANGED <<args, ret, table, assoc, service>>

\* ListingServiceMixin.list_raw: session.scalars(query), then all().
CallListRaw(f, filters, ordering) ==
    /\ flow[f].pc = "idle"
    /\ flow' = [flow EXCEPT ![f] =
           Primary(NewCall("list_raw", [filters |-> filters, ordering |-> ordering]),
                   list(service.repo, filters, None, 0, ordering, None, None), "all", <<>>)]
    /\ UNCHANGED <<args, ret, table, assoc, service>>

ExecPrimary_reconciles_regardless(f) ==
    /\ flow[f].pc = "primary"
    /\ \E failure \in TableAnswers(table, flow[f].stmt), now \in Clock(table, flow[f].stmt) :
        LET fl == flow[f]
            logged == [fl EXCEPT !.trace = Append(@, [stmt |-> fl.stmt, ok |-> ~failure.given])]
            run == Evaluated(fl.stmt, now)
            outcome == IF failure.given THEN Raise(failure.v)
                       ELSE Rows(TableRows(table, run))
            answer == IF fl.at = "discard"
                      THEN IF outcome.raised THEN outcome ELSE Return(None)
                      ELSE IF fl.at = "all"
                      THEN IF outcome.raised THEN outcome ELSE Return(outcome.rows)
                      ELSE execute_for_one(service, outcome)
        IN  /\ table' = IF failure.given THEN table ELSE TableAfter(table, run)
            /\ flow' = [flow EXCEPT ![f] =
                   IF fl.at = "for_one_sync" /\ DOMAIN fl.relation_payload # {}
                   THEN SyncEnter(service, logged,
                                  IF answer.raised
                                  THEN (IF fl.stmt.kind = "insert" THEN fl.stmt.values["id"]
                                        ELSE fl.stmt.where[1].expr.value)
                                  ELSE extract_pk(service, answer.value),
                                  fl.relation_payload, None, answer)
                   ELSE [logged EXCEPT !.pc = "done", !.result = answer]]
    /\ UNCHANGED <<args, ret, assoc, service>>

\* The round-trip of a verb's own statement: the storage runs it or fails it,
\* and the verb unwraps the answer and goes on to the reconciliation, if any.
ExecPrimary(f) ==
    /\ flow[f].pc = "primary"
    /\ \E failure \in TableAnswers(table, flow[f].stmt), now \in Clock(table, flow[f].stmt) :
        LET fl == flow[f]
            logged == [fl EXCEPT !.trace = Append(@, [stmt |-> fl.stmt, ok |-> ~failure.given])]
            run == Evaluated(fl.stmt, now)
            outcome == IF failure.given THEN Raise(failure.v)
                       ELSE Rows(TableRows(table, run))
            answer == IF fl.at = "discard"
                      THEN IF outcome.raised THEN outcome ELSE Return(None)
                      ELSE IF fl.at = "all"
                      THEN IF outcome.raised THEN outcome ELSE Return(outcome.rows)
                      ELSE execute_for_one(service, outcome)
        IN  /\ table' = IF failure.given THEN table ELSE TableAfter(table, run)
            /\ flow' = [flow EXCEPT ![f] =
                   IF fl.at = "for_one_sync" /\ ~answer.raised
                      /\ DOMAIN fl.relation_payload # {}
                   THEN SyncEnter(service, logged, extract_pk(service, answer.value),
                                  fl.relation_payload, None, answer)
                   ELSE [logged EXCEPT !.pc = "done", !.result = answer]]
    /\ UNCHANGED <<args, ret, assoc, service>>

\* PaginationServiceMixin.paginate up to its first round-trip: list_raw builds
\* the list statement and awaits the session.
CallPaginate(f, filters, limit, offset, schema) ==
    /\ flow[f].pc = "idle"
    /\ flow' = [flow EXCEPT ![f] =
           [NewCall("paginate", [filters |-> filters, limit |-> limit,
                                 offset |-> offset, schema |-> schema])
               EXCEPT !.pc = "list",
                      !.stmt = list(service.repo, filters, Some(limit), offset,
                                    None, None, None)]]
    /\ UNCHANGED <<args, ret, table, assoc, service>>

\* paginate from the answer to its list statement to its count statement: the
\* rows are serialized, then the count statement is built and awaited.
ExecList(f) ==
    /\ flow[f].pc = "list"
    /\ \E failure \in TableAnswers(table, flow[f].stmt) :
        LET fl == flow[f]
            logged == [fl EXCEPT !.trace = Append(@, [stmt |-> fl.stmt, ok |-> ~failure.given])]
            data == TableRows(table, fl.stmt)
            serialized == serialize_many(service, data, fl.args.schema, TRUE)
        IN  flow' = [flow EXCEPT ![f] =
                IF failure.given
                THEN [logged EXCEPT !.pc = "done", !.result = Raise(failure.v)]
                ELSE IF serialized.raised
                THEN [logged EXCEPT !.pc = "done", !.result = serialized]
                ELSE [logged EXCEPT !.pc = "count", !.final = serialized,
                                    !.stmt = count(service.repo, fl.args.filters)]]
    /\ UNCHANGED <<args, ret, table, assoc, service>>

\* paginate from the answer to its count statement to its end.
ExecCount(f) ==
    /\ flow[f].pc = "count"
    /\ \E failure \in TableAnswers(table, flow[f].stmt) :
        LET fl == flow[f]
            logged == [fl EXCEPT !.trace = Append(@, [stmt |-> fl.stmt, ok |-> ~failure.given])]
            total == Cardinality(Matching(table, fl.stmt.where))
            meta == calculate(total, fl.args.limit, fl.args.offset)
        IN  flow' = [flow EXCEPT ![f] =
                [logged EXCEPT
                    !.pc = "done",
                    !.result = IF failure.given THEN Raise(failure.v)
                               ELSE IF ~meta.ok THEN Raise(ValueError(meta.error))
                               ELSE Return([meta |-> meta, data |-> fl.final.value])]]
    /\ UNCHANGED <<args, ret, table, assoc, service>>

----------------------------------------------------------------------------
(* SpecSync: one flow calls sync_m2m_relations on a stored association *)

IdSeqs == SeqsUpTo(TargetIds, MaxLen)

\* The relation payloads of a direct call: a field is absent, None or a list.
SyncPayloads ==
    {<<>>} \cup
    {[k \in {"tag_ids"} |-> v] : v \in {None} \cup {Some(q) : q \in IdSeqs}} \cup
    {[k \in {"group_ids"} |-> Some(<<1>>)]} \cup
    {[k \in {"tag_ids", "group_ids"} |-> IF k = "tag_ids" THEN Some(q) ELSE Some(<<1>>)] :
        q \in IdSeqs}

ModeArgs == {None} \cup {Some(m) : m \in SyncModes \cup {"merge"}}

\* Stored associations: any tags of owner 1, with or without rows of the other
\* owner and of the other relation.
SyncAssocs ==
    {[m \in AssocModels |->
        IF m = "item_tag"
        THEN RowsOf(({1} \X own) \cup ({2} \X other))
        ELSE RowsOf(PKs \X groups)] :
        own \in SUBSET TargetIds, other \in {{}, {1, 3}}, groups \in {{}, {2}}}

FullTable == [pk \in PKs |-> Some(Row(pk, "a"))]

InitSync ==
    /\ args = <<>>
    /\ ret = NotCalled
    /\ table = FullTable
    /\ assoc \in SyncAssocs
    /\ service \in {ItemService(m) : m \in {"replace", "add"}}
    /\ flow = [f \in {"f1"} |-> Idle]

NextSync ==
    \/ \E owner_id \in PKs, relation_payload \in SyncPayloads, mode \in ModeArgs :
          CallSync("f1", owner_id, relation_payload, mode)
    \/ ExecSync("f1")

SpecSync == InitSync /\ [][NextSync]_vars

\* What the claims about one finished call read from its record.
Done(f) == flow[f].pc = "done"

Called(f) == flow[f].pc # "idle"

NoFailure(f) == \A i \in 1..Len(flow[f].trace) : flow[f].trace[i].ok

Executed(f, model, kind) ==
    {i \in 1..Len(flow[f].trace) :
        flow[f].trace[i].stmt.model = model /\ flow[f].trace[i].stmt.kind = kind}

SyncCallIn(f, mode) ==
    /\ Done(f)
    /\ flow[f].verb = "sync_m2m_relations"
    /\ flow[f].sync_mode = mode
    /\ NoFailure(f)

Supplied(f) ==
    {i \in 1..Len(service.many_to_many_relations) :
        service.many_to_many_relations[i].payload_field \in DOMAIN flow[f].relation_payload}

Requested(f, relation) == Range(OrEmpty(flow[f].relation_payload[relation.payload_field]))

Before(f, relation) == TargetsOf(flow[f].pre.assoc, relation.association_model, flow[f].owner)

After(f, relation) == TargetsOf(assoc, relation.association_model, flow[f].owner)

\* C9: a sync_m2m_relations call in 'add' mode that met no storage failure
\* returns normally and, for every supplied relation with requested ids R and
\* owner's stored ids E, has executed no delete on the association and exactly
\* one insert holding one row per id of R \ E (no insert when R \ E is empty),
\* leaving the owner with E \cup R.
C9_AddMode ==
    SyncCallIn("f1", "add") =>
        /\ flow["f1"].result = Return(None)
        /\ \A i \in Supplied("f1") :
            LET relation == service.many_to_many_relations[i]
                R == Requested("f1", relation)
                E == Before("f1", relation)
                inserts == Executed("f1", relation.association_model, "insert")
            IN  /\ Executed("f1", relation.association_model, "delete") = {}
                /\ After("f1", relation) = E \cup R
                /\ (R \subseteq E) => inserts = {}
                /\ ~(R \subseteq E) =>
                     /\ Cardinality(inserts) = 1
                     /\ \A n \in inserts :
                          LET rows == flow["f1"].trace[n].stmt.rows
                          IN  /\ Len(rows) = Cardinality(R \ E)
                              /\ Range(rows) =
                                   {build_row(relation, flow["f1"].owner, t) : t \in R \ E}

\* An 'add' call finished for an owner holding tags {1, 2} with {2, 3} requested.
C9_Witness ==
    /\ SyncCallIn("f1", "add")
    /\ "tag_ids" \in DOMAIN flow["f1"].relation_payload
    /\ Before("f1", TagsRelation) = {1, 2}
    /\ Requested("f1", TagsRelation) = {2, 3}
    /\ After("f1", TagsRelation) = {1, 2, 3}

\* C10: a sync_m2m_relations call in 'remove' mode that met no storage failure
\* returns normally and, for every supplied relation with requested ids R and
\* owner's stored ids E, has executed no insert, has executed exactly one delete
\* bound to the owner and to R (no statement at all on the association when R is
\* empty), and has removed exactly the owner's rows with a target in R, leaving
\* the owner with E \ R.
C10_RemoveMode ==
    SyncCallIn("f1", "remove") =>
        /\ flow["f1"].result = Return(None)
        /\ \A i \in Supplied("f1") :
            LET relation == service.many_to_many_relations[i]
                model == relation.association_model
                R == Requested("f1", relation)
                E == Before("f1", relation)
                deletes == Executed("f1", model, "delete")
            IN  /\ Executed("f1", model, "insert") = {}
                /\ After("f1", relation) = E \ R
                /\ \A p \in PKs \X TargetIds :
                     assoc[model][p] =
                        IF p[1] = flow["f1"].owner /\ p[2] \in R THEN 0
                        ELSE flow["f1"].pre.assoc[model][p]
                /\ R = {} =>
                     \A n \in 1..Len(flow["f1"].trace) : flow["f1"].trace[n].stmt.model # model
                /\ R # {} =>
                     /\ Cardinality(deletes) = 1
                     /\ \A n \in deletes :
                          /\ flow["f1"].trace[n].stmt.owner = flow["f1"].owner
                          /\ flow["f1"].trace[n].stmt.targets.given
                          /\ Range(flow["f1"].trace[n].stmt.targets.v) = R

\* A 'remove' call finished for an owner holding tags {1, 2} with {2, 3} requested.
C10_Witness ==
    /\ SyncCallIn("f1", "remove")
    /\ "tag_ids" \in DOMAIN flow["f1"].relation_payload
    /\ Before("f1", TagsRelation) = {1, 2}
    /\ Requested("f1", TagsRelation) = {2, 3}
    /\ After("f1", TagsRelation) = {1}

\* C11: a sync_m2m_relations call in 'replace' mode that met no storage failure
\* returns normally and, for every supplied relation with requested ids R, has
\* first executed one delete of all the owner's rows of the association and
\* then one insert holding one row per id of R (no insert when R is empty),
\* leaving the owner with exactly R, one row each, and the other owners' rows
\* as they were.
C11_ReplaceMode ==
    SyncCallIn("f1", "replace") =>
        /\ flow["f1"].result = Return(None)
        /\ \A i \in Supplied("f1") :
            LET relation == service.many_to_many_relations[i]
                model == relation.association_model
                R == Requested("f1", relation)
                deletes == Executed("f1", model, "delete")
                inserts == Executed("f1", model, "insert")
            IN  /\ Cardinality(deletes) = 1
                /\ \A n \in deletes :
                     /\ flow["f1"].trace[n].stmt.owner = flow["f1"].owner
                     /\ ~flow["f1"].trace[n].stmt.targets.given
                     /\ \A k \in inserts : n < k
                /\ R = {} => inserts = {}
                /\ R # {} =>
                     /\ Cardinality(inserts) = 1
                     /\ \A n \in inserts :
                          LET rows == flow["f1"].trace[n].stmt.rows
                          IN  /\ Len(rows) = Cardinality(R)
                              /\ Range(rows) =
                                   {build_row(relation, flow["f1"].owner, t) : t \in R}
                /\ After("f1", relation) = R
                /\ \A p \in PKs \X TargetIds :
                     assoc[model][p] =
                        IF p[1] = flow["f1"].owner THEN (IF p[2] \in R THEN 1 ELSE 0)
                        ELSE flow["f1"].pre.assoc[model][p]

\* A 'replace' call finished for an owner holding tags {1, 2} with {2, 3} requested.
C11_Witness ==
    /\ SyncCallIn("f1", "replace")
    /\ "tag_ids" \in DOMAIN flow["f1"].relation_payload
    /\ Before("f1", TagsRelation) = {1, 2}
    /\ Requested("f1", TagsRelation) = {2, 3}
    /\ After("f1", TagsRelation) = {2, 3}

\* A 'replace' call with an empty request finished for an owner holding tags.
C11_Cleared ==
    /\ SyncCallIn("f1", "replace")
    /\ "tag_ids" \in DOMAIN flow["f1"].relation_payload
    /\ Before("f1", TagsRelation) = {1, 2}
    /\ Requested("f1", TagsRelation) = {}
    /\ After("f1", TagsRelation) = {}

\* The target ids a statement on an association names, in the statement's order.
NamedTargets(stmt) ==
    IF stmt.kind = "insert"
    THEN [n \in 1..Len(stmt.rows) |-> stmt.rows[n][stmt.right_key]]
    ELSE IF stmt.targets.given THEN stmt.targets.v ELSE <<>>

FirstIndex(q, x) == CHOOSE i \in 1..Len(q) : q[i] = x /\ \A j \in 1..(i - 1) : q[j] # x

\* ts holds ids of the input, each once, ordered as they first occur in it.
FirstOccurrenceOrder(ts, input) ==
    /\ Range(ts) \subseteq Range(input)
    /\ \A a, b \in 1..Len(ts) :
          a < b => /\ ts[a] # ts[b]
                   /\ FirstIndex(input, ts[a]) < FirstIndex(input, ts[b])

\* The statements of the call so far: those executed and the pending one.
Issued(f) ==
    [n \in 1..Len(flow[f].trace) |-> flow[f].trace[n].stmt]
        \o (IF flow[f].pc = "sync" THEN <<flow[f].stmt>> ELSE <<>>)

C14_Ordered ==
    /\ SyncCallIn("f1", "replace")
    /\ "tag_ids" \in DOMAIN flow["f1"].relation_payload
    /\ \E n \in Executed("f1", "item_tag", "insert") :
          NamedTargets(flow["f1"].trace[n].stmt) = <<2, 1>>

SuppliedModels(f) ==
    {r.association_model : r \in {q \in Range(service.many_to_many_relations) :
                                      q.payload_field \in DOMAIN flow[f].args.relation_payload}}

----------------------------------------------------------------------------
(* Spec: one flow calls a service verb on a stored table and association *)

\* The relation fields of a verb's data: absent, None, or a list of ids.
VerbRelationData ==
    {<<>>,
     [k \in {"tag_ids"} |-> None],
     [k \in {"tag_ids"} |-> Some(<<2, 3, 2>>)],
     [k \in {"tag_ids", "group_ids"} |-> IF k = "tag_ids" THEN Some(<<3>>) ELSE Some(<<>>)]}

UpdateData == {[k \in {"name"} |-> n] @@ r : n \in Names, r \in VerbRelationData}

UpsertData ==
    {[k \in {"id", "name"} |-> IF k = "id" THEN pk ELSE n] @@ r :
        pk \in PKs, n \in Names, r \in VerbRelationData}

UpdateOnly == {None, Some(<<"name">>)}

UpdateExclude == {None, Some(<<"id">>)}

Tables == [PKs -> {None} \cup {Some(Row(0, n)) : n \in Names}]

StoredTables ==
    {[pk \in PKs |-> IF t[pk].given THEN Some(Row(pk, t[pk].v.name)) ELSE None] : t \in Tables}

StoredAssocs ==
    {[m \in AssocModels |->
        IF m = "item_tag" THEN RowsOf(tags) ELSE RowsOf(PKs \X groups)] :
        tags \in {{}, {<<1, 1>>, <<1, 2>>, <<2, 2>>}}, groups \in {{}, {2}}}

Init ==
    /\ args = <<>>
    /\ ret = NotCalled
    /\ table \in StoredTables
    /\ assoc \in StoredAssocs
    /\ service \in {ItemService(m) : m \in SyncModes \cup {"merge"}}
    /\ flow = [f \in {"f1"} |-> Idle]

Next ==
    \/ \E pk \in PKs : CallRetrieve("f1", pk)
    \/ \E data \in UpsertData : CallCreate("f1", data)
    \/ \E pk \in PKs, data \in UpdateData : CallUpdate("f1", pk, data)
    \/ \E pk \in PKs : CallDelete("f1", pk)
    \/ \E data \in UpsertData, update_only \in UpdateOnly, update_exclude \in UpdateExclude :
          CallUpsert("f1", data, update_only, update_exclude)
    \/ ExecPrimary("f1")
    \/ ExecSync("f1")

Spec == Init /\ [][Next]_vars

StorageUnchanged(f) == table = flow[f].pre.table /\ assoc = flow[f].pre.assoc

\* C5: an upsert_raw call given both update_only and update_exclude ends with
\* the configuration error raised by the statement builder, before any
\* statement exists: nothing was executed on the session, the table and the
\* associations are as they were, and no reconciliation took place.
C5_ExclusiveOptions ==
    (/\ Called("f1")
     /\ flow["f1"].verb = "upsert_raw"
     /\ flow["f1"].args.update_only.given
     /\ flow["f1"].args.update_exclude.given) =>
        /\ Done("f1")
        /\ flow["f1"].result = Raise(ConfigurationError)
        /\ flow["f1"].stmt = None
        /\ flow["f1"].trace = <<>>
        /\ StorageUnchanged("f1")

\* An upsert_raw call with both options and relation data has ended.
C5_Witness ==
    /\ Done("f1")
    /\ flow["f1"].verb = "upsert_raw"
    /\ flow["f1"].args.update_only = Some(<<"name">>)
    /\ flow["f1"].args.update_exclude = Some(<<"id">>)
    /\ "tag_ids" \in DOMAIN flow["f1"].args.data
    /\ flow["f1"].result.raised

\* C8: retrieve_raw, update_raw and delete called with a primary key that has
\* no row end with NotFound and leave the storage as it was.
C8_NotFoundByPk ==
    (/\ Done("f1")
     /\ flow["f1"].verb \in {"retrieve_raw", "update_raw", "delete"}
     /\ ~flow["f1"].pre.table[flow["f1"].args.pk].given
     /\ NoFailure("f1")) =>
        /\ flow["f1"].result = Raise(NotFoundError(not_found_error(service)))
        /\ StorageUnchanged("f1")

\* The relation fields the data of a write verb's call carries.
CarriedRelations(f) == split_m2m_payload(service, flow[f].args.data).relation_payload

WriteCall(f) ==
    /\ Called(f)
    /\ flow[f].verb \in {"create_raw", "update_raw", "upsert_raw"}

\* C12: under a relation-sync mode other than replace, add and remove, a write
\* verb whose data carries a relation field ends with the configuration error
\* and has executed no statement at all: neither its primary write nor any
\* statement on an association.
C12_InvalidModeFailsFast ==
    (/\ WriteCall("f1")
     /\ DOMAIN CarriedRelations("f1") # {}
     /\ service.m2m_sync_mode \notin SyncModes) =>
        /\ flow["f1"].trace = <<>>
        /\ StorageUnchanged("f1")
        /\ Done("f1") => flow["f1"].result \in {Raise(InvalidModeError), Raise(ConfigurationError)}

RelationFields == {service.many_to_many_relations[i].payload_field :
                      i \in 1..Len(service.many_to_many_relations)}

Touched(f, model) ==
    {n \in 1..Len(flow[f].trace) : flow[f].trace[n].stmt.model = model}

\* The statement of the verb's primary write, pending or executed.
PrimaryStatement(f) ==
    IF flow[f].trace # <<>> THEN Some(flow[f].trace[1].stmt)
    ELSE IF flow[f].pc = "primary" THEN Some(flow[f].stmt)
    ELSE None

WrittenKey(f) ==
    IF flow[f].verb = "update_raw" THEN flow[f].args.pk ELSE flow[f].args.data["id"]

\* The owner a statement on an association is bound to.
OwnersNamed(stmt) ==
    IF stmt.kind = "insert"
    THEN {stmt.rows[n][stmt.left_key] : n \in 1..Len(stmt.rows)}
    ELSE {stmt.owner}

\* The primary round-trip of the call has run and did not yield a written row.
PrimaryFailed(f) ==
    /\ flow[f].trace # <<>>
    /\ \/ ~flow[f].trace[1].ok
       \/ flow[f].verb = "update_raw" /\ ~flow[f].pre.table[flow[f].args.pk].given

\* C15: in create_raw, update_raw and upsert_raw every statement on an
\* association is issued after the primary statement was executed and returned
\* its row, and is bound to the primary key of that row, which is stored; when
\* the primary write fails in storage or finds no row, the call ends with that
\* error after its single round-trip and no association is touched.
C15_ReconcileAfterPrimary ==
    WriteCall("f1") =>
        /\ \A n \in 1..Len(Issued("f1")) :
            Issued("f1")[n].model \in AssocModels =>
                /\ n > 1
                /\ Issued("f1")[1].model = service.repo.model.name
                /\ flow["f1"].trace[1].ok
                /\ ~PrimaryFailed("f1")
                /\ OwnersNamed(Issued("f1")[n]) = {WrittenKey("f1")}
                /\ table[WrittenKey("f1")].given
        /\ PrimaryFailed("f1") =>
                /\ Done("f1")
                /\ flow["f1"].result.raised
                /\ Len(flow["f1"].trace) = 1
                /\ assoc = flow["f1"].pre.assoc

\* An upsert that inserted row 2 has then replaced the tags of owner 2.
C15_Witness ==
    /\ Done("f1") /\ NoFailure("f1")
    /\ flow["f1"].verb = "upsert_raw"
    /\ ~flow["f1"].pre.table[2].given
    /\ WrittenKey("f1") = 2
    /\ Len(flow["f1"].trace) = 3
    /\ flow["f1"].trace[1].stmt.model = "Item"
    /\ flow["f1"].trace[3].stmt.kind = "insert"
    /\ flow["f1"].trace[3].stmt.model = "item_tag"
    /\ After("f1", TagsRelation) = {2, 3}

\* An update carrying tags has ended with NotFound after its single round-trip.
C15_PrimaryNotFound ==
    /\ Done("f1")
    /\ flow["f1"].verb = "update_raw"
    /\ "tag_ids" \in DOMAIN flow["f1"].args.data
    /\ flow["f1"].result = Raise(NotFoundError(not_found_error(service)))
    /\ Len(flow["f1"].trace) = 1

\* The associations after the first n statements of the call, as far as the
\* storage executed them, were applied to a.
RECURSIVE AssocApplied(_, _, _)
AssocApplied(a, trace, n) ==
    IF n = 0 THEN a
    ELSE LET before == AssocApplied(a, trace, n - 1)
         IN  IF trace[n].ok /\ trace[n].stmt.model \in AssocModels
             THEN AssocAfter(before, trace[n].stmt) ELSE before

\* A reconciliation round-trip of the call failed in storage.
ReconcileFailed(f) ==
    \E n \in 2..Len(flow[f].trace) : ~flow[f].trace[n].ok

\* C16: when a reconciliation round-trip of a write verb fails, it is the last
\* statement of the call, the failure reaches the caller as the storage raised
\* it, and the storage holds what the earlier round-trips did: the primary write
\* and every association statement executed before the failure, none undone.
C16_NoRollback ==
    (WriteCall("f1") /\ ReconcileFailed("f1")) =>
        /\ Done("f1")
        /\ ~flow["f1"].trace[Len(flow["f1"].trace)].ok
        /\ \A n \in 1..(Len(flow["f1"].trace) - 1) : flow["f1"].trace[n].ok
        /\ flow["f1"].result \in {Raise(e) : e \in StorageFailures}
        /\ table = TableAfter(flow["f1"].pre.table, flow["f1"].trace[1].stmt)
        /\ assoc = AssocApplied(flow["f1"].pre.assoc, flow["f1"].trace, Len(flow["f1"].trace))
        /\ (/\ flow["f1"].sync_mode = "replace"
            /\ flow["f1"].trace[Len(flow["f1"].trace)].stmt.kind = "insert") =>
                /\ flow["f1"].trace[Len(flow["f1"].trace) - 1].stmt.kind = "delete"
                /\ TargetsOf(assoc, flow["f1"].trace[Len(flow["f1"].trace)].stmt.model,
                             flow["f1"].owner) = {}

\* An update under 'replace' renamed its row and deleted the owner's tags {1, 2};
\* the insert then failed: the row keeps the new name and the tags stay deleted.
C16_Witness ==
    /\ Done("f1")
    /\ flow["f1"].verb = "update_raw"
    /\ flow["f1"].sync_mode = "replace"
    /\ Len(flow["f1"].trace) = 3
    /\ flow["f1"].trace[3].stmt.kind = "insert"
    /\ ~flow["f1"].trace[3].ok
    /\ flow["f1"].result.raised
    /\ Before("f1", TagsRelation) = {1, 2}
    /\ After("f1", TagsRelation) = {}
    /\ flow["f1"].pre.table[flow["f1"].args.pk].v.name # flow["f1"].args.data["name"]
    /\ table[flow["f1"].args.pk].v.name = flow["f1"].args.data["name"]

----------------------------------------------------------------------------
(* SpecPaginate: one flow calls paginate on a stored table *)

MaxPageLimit == 3

MaxPageOffset == 2

NameIs(n) == Literal(Clause("Item", [op |-> "eq", attr |-> "name", value |-> n], ""))

\* The filters of a call: none, an empty list, a factory or a literal clause.
PageFilters == {None, Some(<<>>), Some(<<PkFilter(ItemRepo, 1)>>), Some(<<NameIs("b")>>)}

PageServices ==
    {[ItemService("replace") EXCEPT !.repo.default_filters = d,
                                    !.list_schema = ls, !.detail_schema = ds] :
        d \in {<<>>, <<NameIs("a")>>},
        ls \in {None, Some("ItemOut")}, ds \in {None, Some("NamedA")}}

InitPaginate ==
    /\ args = <<>>
    /\ ret = NotCalled
    /\ table \in StoredTables
    /\ assoc = [m \in AssocModels |-> NoRows]
    /\ service \in PageServices
    /\ flow = [f \in {"f1"} |-> Idle]

NextPaginate ==
    \/ \E filters \in PageFilters, limit \in (-1)..MaxPageLimit,
          offset \in (-1)..MaxPageOffset, schema \in SchemaArgs :
          CallPaginate("f1", filters, limit, offset, schema)
    \/ ExecList("f1")
    \/ ExecCount("f1")

SpecPaginate == InitPaginate /\ [][NextPaginate]_vars

\* The stored rows that satisfy every default filter of the repository and
\* every filter of the call.
InFilterSet(f) ==
    LET specs == service.repo.default_filters \o OrEmpty(flow[f].args.filters)
    IN  {pk \in PKs :
            /\ table[pk].given
            /\ \A i \in 1..Len(specs) :
                 LET clause == IF specs[i].callable THEN specs[i].fn[service.repo.model]
                               ELSE specs[i].clause
                 IN  table[pk].v[clause.expr.attr] = clause.expr.value}

\* C18: a paginate call that returns has executed a list statement and then a
\* count statement carrying the same where-clauses, the default filters
\* followed by the call's; its meta.total is the number of stored rows in that
\* filter set, and its data holds at most `limit` items, each one made from a
\* different stored row of that filter set.
C18_PaginateTotal ==
    (Done("f1") /\ flow["f1"].verb = "paginate" /\ ~flow["f1"].result.raised) =>
        LET page == flow["f1"].result.value
        IN  /\ Len(flow["f1"].trace) = 2
            /\ flow["f1"].trace[1].stmt.kind = "select"
            /\ flow["f1"].trace[2].stmt.kind = "count"
            /\ flow["f1"].trace[2].stmt.where = flow["f1"].trace[1].stmt.where
            /\ Len(flow["f1"].trace[1].stmt.where) =
                  Len(service.repo.default_filters) + Len(OrEmpty(flow["f1"].args.filters))
            /\ table = flow["f1"].pre.table
            /\ page.meta.total = Cardinality(InFilterSet("f1"))
            /\ Len(page.data) <= flow["f1"].args.limit
            /\ \A i \in 1..Len(page.data) : page.data[i].id \in InFilterSet("f1")
            /\ \A i, j \in 1..Len(page.data) : i # j => page.data[i].id # page.data[j].id

\* A paginate call under a default filter and a call filter returned the only
\* row both admit, while another row is stored.
C18_Witness ==
    /\ Done("f1") /\ flow["f1"].verb = "paginate" /\ ~flow["f1"].result.raised
    /\ service.repo.default_filters # <<>>
    /\ flow["f1"].args.filters = Some(<<PkFilter(ItemRepo, 1)>>)
    /\ \E pk \in PKs : table[pk].given /\ pk \notin InFilterSet("f1")
    /\ flow["f1"].result.value.meta.total = 1
    /\ Len(flow["f1"].result.value.data) = 1

\* C19: a paginate call given a non-positive limit or a negative offset
\* executes neither its list statement nor its count statement, and ends with
\* the pagination validation error, returning no page.
C19_PaginateValidatesFirst ==
    (/\ Called("f1")
     /\ flow["f1"].verb = "paginate"
     /\ (flow["f1"].args.limit <= 0 \/ flow["f1"].args.offset < 0)) =>
        /\ flow["f1"].trace = <<>>
        /\ Done("f1") =>
             flow["f1"].result \in {Raise(ValueError(LimitError)), Raise(ValueError(OffsetError))}

----------------------------------------------------------------------------
(* SpecConfig: builder and service calls, one after another, on one instance *)

\* What a merge call leaves behind: the repository it was called on and the
\* override sequence it was given.  merge_* build new tuples from both and
\* assign to neither.
merge_options_effect(repo, options) == [repo |-> repo, override |-> options]

merge_filters_effect(repo, filters) == [repo |-> repo, override |-> filters]

merge_ordering_effect_grows_defaults(repo, ordering) ==
    [repo |-> [repo EXCEPT !.default_ordering = merge_ordering(repo, ordering)],
     override |-> ordering]

merge_ordering_effect(repo, ordering) == [repo |-> repo, override |-> ordering]

\* A builder call recorded with the result of the previous call of the same
\* builder, if that was the call before it.
Built(op, out) ==
    [op |-> op, out |-> out, before |-> IF ret.op = op THEN Some(ret.out) ELSE None]

MergeFiltersCall ==
    LET effect == merge_filters_effect(service.repo, args.override)
    IN  /\ ret' = Built("merge_filters", merge_filters(service.repo, args.override))
        /\ service' = [service EXCEPT !.repo = effect.repo]
        /\ args' = [args EXCEPT !.override = effect.override]
        /\ UNCHANGED <<table, assoc, flow>>

MergeOptionsCall ==
    LET effect == merge_options_effect(service.repo, args.override)
    IN  /\ ret' = Built("merge_options", merge_options(service.repo, args.override))
        /\ service' = [service EXCEPT !.repo = effect.repo]
        /\ args' = [args EXCEPT !.override = effect.override]
        /\ UNCHANGED <<table, assoc, flow>>

MergeOrderingCall ==
    LET effect == merge_ordering_effect(service.repo, args.override)
    IN  /\ ret' = Built("merge_ordering", merge_ordering(service.repo, args.override))
        /\ service' = [service EXCEPT !.repo = effect.repo]
        /\ args' = [args EXCEPT !.override = effect.override]
        /\ UNCHANGED <<table, assoc, flow>>

\* repo.list with the override given as filters, ordering and options.
ListCall ==
    LET options == merge_options_effect(service.repo, args.override)
        filters == merge_filters_effect(options.repo, options.override)
        ordering == merge_ordering_effect(filters.repo, filters.override)
    IN  /\ ret' = Built("list", list(service.repo, args.override, None, 0,
                                     args.override, args.override, None))
        /\ service' = [service EXCEPT !.repo = ordering.repo]
        /\ args' = [args EXCEPT !.override = ordering.override]
        /\ UNCHANGED <<table, assoc, flow>>

\* The caller takes the result of a finished service call.
FinishCall(f) ==
    /\ flow[f].pc = "done"
    /\ flow' = [flow EXCEPT ![f] = Idle]
    /\ UNCHANGED <<args, ret, table, assoc, service>>

ConfiguredRepos ==
    {ItemRepo,
     [ItemRepo EXCEPT !.default_filters = <<NameIs("a")>>,
                      !.default_options = <<Literal(Clause("Item", "load_tags", ""))>>,
                      !.default_ordering = <<Literal(Clause("Item", "name", "desc"))>>]}

ConfigOverrides == {None} \cup {Some(o) : o \in SeqsUpTo({NameIs("b"), PkFilter(ItemRepo, 1)}, 1)}

ConfigData == {[k \in {"name"} |-> "b"], [k \in {"name", "tag_ids"} |-> IF k = "name" THEN "a" ELSE Some(<<1>>)]}

InitConfig ==
    /\ args \in [override : ConfigOverrides]
    /\ ret = NotCalled
    /\ table = FullTable
    /\ assoc = [m \in AssocModels |-> NoRows]
    /\ service \in {[ItemService(m) EXCEPT !.repo = r] :
                       m \in {"replace", "add"}, r \in ConfiguredRepos}
    /\ flow = [f \in {"f1"} |-> Idle]

NextConfig ==
    \/ MergeFiltersCall
    \/ MergeOptionsCall
    \/ MergeOrderingCall
    \/ ListCall
    \/ \E pk \in PKs, data \in ConfigData : CallUpdate("f1", pk, data)
    \/ ExecPrimary("f1")
    \/ ExecSync("f1")
    \/ FinishCall("f1")

SpecConfig == InitConfig /\ [][NextConfig]_vars

----------------------------------------------------------------------------
(* SpecBuild: the statement builders on every repository configuration *)

\* Repositories whose primary key is any attribute of their entity type and
\* whose fallback sort attribute is the class default or an override.
\* A literal filter clause on an integer attribute.
IdAbove(n) == Literal(Clause("Item", [op |-> "gt", attr |-> "id", value |-> n], ""))

BuildRepos ==
    LET configured ==
            {[model |-> m, default_filters |-> d, default_options |-> d,
              default_ordering |-> d, fallback_sort_attribute |-> a, pk_attribute |-> k,
              deleted_attribute |-> "deleted_at"] :
                m \in Models, d \in {<<>>, <<IdAbove(0)>>}, a \in FallbackAttributes,
                k \in {"id", "slug", "name"}}
    IN  {repo \in configured : repo.pk_attribute \in repo.model.attrs}

BuildPayloads == {[k \in {"id", "name"} |-> IF k = "id" THEN 1 ELSE n] : n \in Names}

BuildOverrides == {None, Some(<<>>), Some(<<IdAbove(1)>>)}

ConflictColumns == {None, Some(<<>>), Some(<<"name">>)}

BuildUpdateOnly == {None, Some(<<"name">>), Some(<<"name", "deleted_at">>)}

BuildUpdateExclude == {None, Some(<<"id">>), Some(<<"deleted_at">>)}

InitBuild ==
    /\ args \in [repo : BuildRepos, pk : PKs, override : BuildOverrides,
                 payload : BuildPayloads, conflict_columns : ConflictColumns,
                 update_only : BuildUpdateOnly, update_exclude : BuildUpdateExclude]
    /\ ret = NotCalled
    /\ IdleStorage

\* One builder call each; the override is given for each optional sequence.
BuildList ==
    /\ ret = NotCalled
    /\ ret' = [op |-> "list",
               out |-> list(args.repo, args.override, None, 0, None, args.override, None)]
    /\ UNCHANGED <<args, table, assoc, flow, service>>

BuildRetrieve ==
    /\ ret = NotCalled
    /\ ret' = [op |-> "retrieve",
               out |-> retrieve(args.repo, args.pk, args.override)]
    /\ UNCHANGED <<args, table, assoc, flow, service>>

BuildRetrieveOneBy ==
    /\ ret = NotCalled
    /\ ret' = [op |-> "retrieve_one_by",
               out |-> retrieve_one_by(args.repo, args.override, None, args.override)]
    /\ UNCHANGED <<args, table, assoc, flow, service>>

BuildUpdate ==
    /\ ret = NotCalled
    /\ ret' = [op |-> "update",
               out |-> update(args.repo, args.pk, args.payload, args.override)]
    /\ UNCHANGED <<args, table, assoc, flow, service>>

BuildDelete ==
    /\ ret = NotCalled
    /\ ret' = [op |-> "delete",
               out |-> delete(args.repo, args.pk, args.override)]
    /\ UNCHANGED <<args, table, assoc, flow, service>>

BuildSoftDelete ==
    /\ ret = NotCalled
    /\ ret' = [op |-> "soft_delete",
               out |-> soft_delete(args.repo, args.pk, args.override)]
    /\ UNCHANGED <<args, table, assoc, flow, service>>

BuildSoftDeleteBy ==
    /\ ret = NotCalled
    /\ ret' = [op |-> "soft_delete_by",
               out |-> soft_delete_by(args.repo, Some(<<PkFilter(args.repo, args.pk)>>),
                                     args.override)]
    /\ UNCHANGED <<args, table, assoc, flow, service>>

BuildUpsert ==
    /\ ret = NotCalled
    /\ ret' = [op |-> "upsert",
               out |-> upsert(args.repo, args.payload, args.conflict_columns, args.override,
                             args.update_only, args.update_exclude, args.override)]
    /\ UNCHANGED <<args, table, assoc, flow, service>>

NextBuild ==
    \/ BuildList
    \/ BuildRetrieve
    \/ BuildRetrieveOneBy
    \/ BuildUpdate
    \/ BuildDelete
    \/ BuildSoftDelete
    \/ BuildSoftDeleteBy
    \/ BuildUpsert

SpecBuild == InitBuild /\ [][NextBuild]_vars

PrimaryKeyAscending == Clause(args.repo.model.name, args.repo.pk_attribute, "asc")

\* C21: with no ordering configured or supplied and the fallback sort
\* attribute at its default "id", the statements of list, retrieve and
\* retrieve_one_by are ordered by exactly one clause, ascending on the
\* repository's primary-key attribute.
C21_FallbackIsPrimaryKey ==
    (/\ ret.op \in {"list", "retrieve", "retrieve_one_by"}
     /\ args.repo.default_ordering = <<>>
     /\ args.repo.fallback_sort_attribute = "id")
        => ret.out.order_by = <<PrimaryKeyAscending>>

\* The entries of a payload whose key satisfies a condition, stated on its own.
IsRestriction(entries, payload, keys) ==
    /\ DOMAIN entries = {k \in DOMAIN payload : k \in keys}
    /\ \A k \in DOMAIN entries : entries[k] = payload[k]

\* C22: a built upsert inserts the full payload; its conflict target is the
\* primary-key column when conflict_columns is omitted or empty; its update
\* clause is the full payload without narrowing, the payload entries named in
\* update_only when that is given, and the payload entries not named in
\* update_exclude when that is given.
C22_UpsertTargetAndUpdateClause ==
    (ret.op = "upsert" /\ ~ret.out.raised) =>
        LET stmt == ret.out.value
        IN  /\ stmt.values = args.payload
            /\ ~(args.conflict_columns.given /\ args.conflict_columns.v # <<>>) =>
                   stmt.index_elements = <<args.repo.pk_attribute>>
            /\ (args.conflict_columns.given /\ args.conflict_columns.v # <<>>) =>
                   stmt.index_elements = args.conflict_columns.v
            /\ (~args.update_only.given /\ ~args.update_exclude.given) =>
                   stmt.set_ = args.payload
            /\ args.update_only.given =>
                   IsRestriction(stmt.set_, args.payload, Range(args.update_only.v))
            /\ args.update_exclude.given =>
                   IsRestriction(stmt.set_, args.payload,
                                 DOMAIN args.payload \ Range(args.update_exclude.v))

\* An upsert with an empty conflict_columns on a repository keyed by "name",
\* narrowed by an update_exclude naming a payload key.
C22_Witness ==
    /\ ret.op = "upsert"
    /\ ~ret.out.raised
    /\ args.conflict_columns = Some(<<>>)
    /\ args.repo.pk_attribute = "name"
    /\ args.update_exclude = Some(<<"id">>)
    /\ ret.out.value.index_elements = <<"name">>
    /\ DOMAIN ret.out.value.set_ = {"name"}

\* pk_column == pk on the repository's entity type, stated on its own.
PkClause ==
    Clause(args.repo.model.name,
           [op |-> "eq", attr |-> args.repo.pk_attribute, value |-> args.pk], "")

OnlyPkFilter == Some(<<PkFilter(args.repo, args.pk)>>)

DeletedMarker == [k \in {args.repo.deleted_attribute} |-> StorageNow]

\* The resolved default filters followed by the pk clause.
DefaultsThenPk ==
    [i \in 1..Len(args.repo.default_filters) |->
        ResolvedOn(args.repo, args.repo.default_filters[i])] \o <<PkClause>>

\* C23: each by-primary-key builder returns the statement of its general
\* counterpart called with the single filter pk_column == pk (retrieve: list
\* with limit 1 and offset 0; update: update_by; delete: delete_by;
\* soft_delete: soft_delete_by, itself update_by with the deleted marker set
\* to the storage's now()), and in each of them the default filters come
\* before the pk filter.
C23_ByPkIsGeneralWithPkFilter ==
    /\ ret.op = "retrieve" =>
           ret.out = list(args.repo, OnlyPkFilter, Some(1), 0, None, args.override, None)
    /\ ret.op = "update" =>
           ret.out = update_by(args.repo, args.payload, OnlyPkFilter, args.override)
    /\ ret.op = "delete" => ret.out = delete_by(args.repo, OnlyPkFilter, args.override)
    /\ ret.op = "soft_delete" =>
           /\ ret.out = soft_delete_by(args.repo, OnlyPkFilter, args.override)
           /\ ret.out = update_by(args.repo, DeletedMarker, OnlyPkFilter, args.override)
    /\ ret.op = "soft_delete_by" =>
           ret.out = update_by(args.repo, DeletedMarker, OnlyPkFilter, args.override)
    /\ ret.op \in {"retrieve", "update", "delete", "soft_delete", "soft_delete_by"} =>
           ret.out.where = DefaultsThenPk

\* update(pk, payload) on a repository with a default filter: two where
\* clauses, the default first.
C23_Witness ==
    /\ ret.op = "update"
    /\ args.repo.default_filters # <<>>
    /\ args.repo.pk_attribute = "slug"
    /\ Len(ret.out.where) = 2
    /\ ret.out.where[2] = PkClause
    /\ ret.out.where[1] # PkClause

----------------------------------------------------------------------------
(* SpecVerbs: one call of a by-filter, listing, delete or write verb *)

\* The repository of a soft-delete service.
SoftDeleteItemRepo ==
    [model |-> ItemModel, default_filters |-> <<>>, default_options |-> <<>>,
     default_ordering |-> <<>>, fallback_sort_attribute |-> "id", pk_attribute |-> "id",
     deleted_attribute |-> "deleted_at"]

\* A SoftDeleteRepositoryService subclass with the relations of ItemService.
SoftDeleteItemService(sync_mode) ==
    [ItemService(sync_mode) EXCEPT !.repo = SoftDeleteItemRepo]

IdDescending == Literal(Clause("Item", "id", "desc"))

VerbFilters == {None, Some(<<NameIs("a")>>), Some(<<PkFilter(ItemRepo, 2)>>)}

VerbOrdering == {None, Some(<<IdDescending>>)}

RenameData == {[k \in {"name"} |-> "b"]}

TagData == {[k \in {"name", "tag_ids"} |-> IF k = "name" THEN "b" ELSE Some(q)] :
               q \in {<<>>, <<3>>}}

InitVerbs ==
    /\ args = <<>>
    /\ ret = NotCalled
    /\ table \in StoredTables
    /\ assoc \in StoredAssocs
    /\ service \in {SoftDeleteItemService(m) : m \in SyncModes}
    /\ flow = [f \in {"f1"} |-> Idle]

NextVerbs ==
    \/ \E filters \in VerbFilters, ordering \in VerbOrdering :
          CallRetrieveOneBy("f1", filters, ordering)
    \/ \E filters \in VerbFilters, data \in RenameData : CallUpdateBy("f1", filters, data)
    \/ \E filters \in VerbFilters, ordering \in VerbOrdering :
          CallListRaw("f1", filters, ordering)
    \/ \E pk \in PKs : CallDelete("f1", pk)
    \/ \E pk \in PKs : CallSoftDelete("f1", pk)
    \/ \E pk \in PKs, data \in TagData : CallUpdate("f1", pk, data)
    \/ ExecPrimary("f1")
    \/ ExecSync("f1")

SpecVerbs == InitVerbs /\ [][NextVerbs]_vars

\* The stored rows the filters of the call hold for, before the call.
Matched(f) == Matching(flow[f].pre.table, merge_filters(service.repo, flow[f].args.filters))

\* The first of them in the ordering of the call.
FirstMatched(f) ==
    LET ids == Ascending(Matched(f))
        first == IF flow[f].args.ordering.given THEN ids[Len(ids)] ELSE ids[1]
    IN  flow[f].pre.table[first].v

\* C24: retrieve_one_raw_by runs a select carrying the call's filters and
\* ordering and no limit, and when more than one row matches it returns the
\* first row in that ordering.
C24_FirstMatching ==
    (Called("f1") /\ flow["f1"].verb = "retrieve_one_raw_by") =>
        /\ PrimaryStatement("f1").v =
               retrieve_one_by(service.repo, flow["f1"].args.filters,
                               flow["f1"].args.ordering, None)
        /\ ~PrimaryStatement("f1").v.limit.given
        /\ (Done("f1") /\ NoFailure("f1") /\ Cardinality(Matched("f1")) > 1) =>
               flow["f1"].result = Return(FirstMatched("f1"))

MultipleRowsFailure == Raise(MultipleResultsFound)

\* C26: an update_by_raw call whose filters match two or more rows, and whose
\* statement the storage runs, ends with the multiple-rows failure of
\* scalar_one_or_none, which is neither NotFound nor a translated integrity
\* error, and every matching row stays updated: each holds the payload's
\* values, and rows that did not match are as before.
C26_UpdateByManyRows ==
    (/\ Done("f1")
     /\ flow["f1"].verb = "update_by_raw"
     /\ NoFailure("f1")
     /\ Cardinality(Matched("f1")) >= 2) =>
        /\ flow["f1"].result = MultipleRowsFailure
        /\ flow["f1"].result.exc.type \notin {"NotFoundError", "AlreadyExistsError", "FKNotFoundError"}
        /\ Len(flow["f1"].trace) = 1
        /\ \A pk \in PKs :
              IF pk \in Matched("f1")
              THEN /\ table[pk].given
                   /\ \A k \in DOMAIN flow["f1"].args.data :
                         table[pk].v[k] = flow["f1"].args.data[k]
                   /\ \A k \in DOMAIN table[pk].v \ DOMAIN flow["f1"].args.data :
                         table[pk].v[k] = flow["f1"].pre.table[pk].v[k]
              ELSE table[pk] = flow["f1"].pre.table[pk]

\* Both stored rows were named "a", the call renamed every row named "a" to
\* "b" and failed; both rows are now named "b".
C26_Witness ==
    /\ Done("f1")
    /\ flow["f1"].verb = "update_by_raw"
    /\ flow["f1"].args.filters = Some(<<NameIs("a")>>)
    /\ \A pk \in PKs : flow["f1"].pre.table[pk] = Some(Row(pk, "a"))
    /\ flow["f1"].result = MultipleRowsFailure
    /\ \A pk \in PKs : table[pk] = Some(Row(pk, "b"))

----------------------------------------------------------------------------
(* SpecTwoFlows: two add-mode reconciliations on distinct sessions *)

Flows == {"f1", "f2"}

\* Each call names one or two tags of its owner.
TwoFlowPayloads == {[k \in {"tag_ids"} |-> Some(q)] : q \in {<<1>>, <<2>>, <<1, 2>>}}

InitTwoFlows ==
    /\ args = <<>>
    /\ ret = NotCalled
    /\ table = FullTable
    /\ assoc \in {[m \in AssocModels |-> IF m = "item_tag" THEN RowsOf(tags) ELSE NoRows] :
                     tags \in {{}, {<<1, 1>>}}}
    /\ service = ItemService("add")
    /\ flow = [f \in Flows |-> Idle]

\* The flows are suspended only at their round-trips, in any interleaving.
NextTwoFlows ==
    \/ \E f \in Flows, owner_id \in PKs, relation_payload \in TwoFlowPayloads :
          CallSync(f, owner_id, relation_payload, None)
    \/ \E f \in Flows : ExecSync(f)

SpecTwoFlows == InitTwoFlows /\ [][NextTwoFlows]_vars

\* C25: while add-mode reconciliations of two flows interleave at their
\* round-trips, every association table holds at most one row per (owner,
\* target) pair.
C25_AddNeverDuplicates ==
    \A m \in AssocModels : \A p \in PKs \X TargetIds : assoc[m][p] <= 1

\* The last round-trip of the call failed in the storage.
LastFailed(f) == flow[f].trace # <<>> /\ ~flow[f].trace[Len(flow[f].trace)].ok

LastStatement(f) == flow[f].trace[Len(flow[f].trace)].stmt

\* C27: a call whose failed round-trip was a reconciliation statement (a
\* select, delete or insert on an association table), or the statement of
\* delete, soft_delete or list_raw, ends with the storage's own failure,
\* integrity errors included, never with ForeignKeyNotFound or AlreadyExists;
\* a failed statement run through execute_for_one never ends the call with an
\* integrity error as the storage raised it.
C27_TranslationOnlyInExecutor ==
    (Done("f1") /\ LastFailed("f1")) =>
        IF \/ LastStatement("f1").model \in AssocModels
           \/ flow["f1"].verb \in {"delete", "soft_delete", "list_raw"}
        THEN /\ flow["f1"].result \in {Raise(e) : e \in StorageFailures}
             /\ flow["f1"].result.exc.type \notin {"FKNotFoundError", "AlreadyExistsError"}
        ELSE /\ flow["f1"].result.raised
             /\ flow["f1"].result.exc.type # "IntegrityError"

\* An update_raw call whose insert into the tag association met a unique
\* violation, after its own statement succeeded.
C27_Witness ==
    /\ Done("f1")
    /\ flow["f1"].verb = "update_raw"
    /\ Len(flow["f1"].trace) > 1
    /\ flow["f1"].trace[1].ok
    /\ LastFailed("f1")
    /\ LastStatement("f1").kind = "insert"
    /\ LastStatement("f1").model = "item_tag"
    /\ flow["f1"].result = Raise(UniqueViolation)

\* A soft_delete call whose statement met a foreign-key violation.
C27_SoftDeleteFailed ==
    /\ Done("f1")
    /\ flow["f1"].verb = "soft_delete"
    /\ flow["f1"].result = Raise(FkViolation)

----------------------------------------------------------------------------
(* SpecTwice: sync_m2m_relations run again with the same arguments *)

\* The caller, after a run that met no failure, calls sync_m2m_relations again
\* with the owner, payload and mode of that run; `ret` keeps what it called.
CallSyncAgain(f) ==
    /\ ret = NotCalled
    /\ Done(f)
    /\ flow[f].verb = "sync_m2m_relations"
    /\ NoFailure(f)
    /\ ~flow[f].result.raised
    /\ ret' = [op |-> "sync_m2m_relations", out |-> flow[f].args]
    /\ flow' = [flow EXCEPT ![f] =
           SyncEnter(service,
                     NewCall("sync_m2m_relations", flow[f].args),
                     flow[f].args.owner_id, flow[f].args.relation_payload,
                     flow[f].args.mode, Return(None))]
    /\ UNCHANGED <<args, table, assoc, service>>

TwicePayloads ==
    {[k \in {"tag_ids"} |-> v] : v \in {None} \cup {Some(q) : q \in IdSeqs}} \cup
    {[k \in {"tag_ids", "group_ids"} |-> IF k = "tag_ids" THEN Some(q) ELSE Some(<<1, 2>>)] :
        q \in {<<>>, <<3, 1>>}}

InitTwice ==
    /\ args = <<>>
    /\ ret = NotCalled
    /\ table = FullTable
    /\ assoc \in SyncAssocs
    /\ service \in {ItemService(m) : m \in SyncModes}
    /\ flow = [f \in {"f1"} |-> Idle]

NextTwice ==
    \/ \E relation_payload \in TwicePayloads : CallSync("f1", 1, relation_payload, None)
    \/ ExecSync("f1")
    \/ CallSyncAgain("f1")

SpecTwice == InitTwice /\ [][NextTwice]_vars

SecondRun(f) == ret.op = "sync_m2m_relations" /\ Called(f)

\* C29: a second run of sync_m2m_relations with the owner, mode and requested
\* ids of the run before it, with no failure in either and nothing in
\* between, ends with the associations as the first run left them; in 'add'
\* mode the second run executes no insert.
C29_SyncIdempotent ==
    (SecondRun("f1") /\ Done("f1") /\ NoFailure("f1")) =>
        /\ flow["f1"].args = ret.out
        /\ flow["f1"].result = Return(None)
        /\ assoc = flow["f1"].pre.assoc
        /\ flow["f1"].sync_mode = "add" =>
               \A m \in AssocModels : Executed("f1", m, "insert") = {}

\* A second 'add' run naming two tags, one of which the first run inserted.
C29_Witness ==
    /\ SecondRun("f1")
    /\ SyncCallIn("f1", "add")
    /\ flow["f1"].args.relation_payload = [k \in {"tag_ids"} |-> Some(<<1, 2>>)]
    /\ TargetsOf(assoc, "item_tag", 1) = {1, 2}
    /\ Len(flow["f1"].trace) = 1

\* A second 'replace' run that deleted and inserted again.
C29_ReplaceAgain ==
    /\ SecondRun("f1")
    /\ SyncCallIn("f1", "replace")
    /\ flow["f1"].args.relation_payload = [k \in {"tag_ids"} |-> Some(<<3, 1>>)]
    /\ Len(flow["f1"].trace) = 2
    /\ TargetsOf(assoc, "item_tag", 1) = {1, 3}

----------------------------------------------------------------------------
(* SpecSoft: calls, one after another, on a soft-delete service *)

\* A default filter that excludes soft-deleted rows: deleted_at IS NULL.
NotDeleted == Literal(Clause("Item", [op |-> "eq", attr |-> "deleted_at", value |-> 0], ""))

SoftServices ==
    {[SoftDeleteItemService("replace") EXCEPT !.repo.default_filters = d] :
        d \in {<<>>, <<NotDeleted>>}}

InitSoft ==
    /\ args = <<>>
    /\ ret = NotCalled
    /\ table \in StoredTables
    /\ assoc = [m \in AssocModels |-> NoRows]
    /\ service \in SoftServices
    /\ flow = [f \in {"f1"} |-> Idle]

NextSoft ==
    \/ \E pk \in PKs : CallSoftDelete("f1", pk)
    \/ \E pk \in PKs : CallRetrieve("f1", pk)
    \/ CallListRaw("f1", None, None)
    \/ \E pk \in PKs, data \in RenameData : CallUpdate("f1", pk, data)
    \/ ExecPrimary("f1")
    \/ FinishCall("f1")

SpecSoft == InitSoft /\ [][NextSoft]_vars

\* The call ended and the storage ran its statement.
Ran(f, verb) == Done(f) /\ flow[f].verb = verb /\ NoFailure(f)

\* The row the call names was stored before the call and passes the default
\* filters of the repository.
NamedRowVisible(f) ==
    flow[f].args.pk \in Matching(flow[f].pre.table, merge_filters(service.repo, None))

\* The row the call names was soft-deleted before the call.
NamedRowSoftDeleted(f) ==
    /\ flow[f].pre.table[flow[f].args.pk].given
    /\ flow[f].pre.table[flow[f].args.pk].v.deleted_at > 0

\* A soft_delete that ran removed no row and changed at most the marker of the
\* row it names; with `newer`, a marker it overwrote is a later timestamp.
SoftDeleteKeepsRows(f, newer) ==
    Ran(f, "soft_delete") =>
        /\ flow[f].result = Return(None)
        /\ \A pk \in PKs :
              LET before == flow[f].pre.table[pk]
              IN  IF pk = flow[f].args.pk /\ NamedRowVisible(f)
                  THEN /\ table[pk].given
                       /\ table[pk].v.id = before.v.id
                       /\ table[pk].v.name = before.v.name
                       /\ table[pk].v.deleted_at > 0
                       /\ table[pk].v.deleted_at >= before.v.deleted_at
                       /\ (newer /\ before.v.deleted_at > 0) =>
                              table[pk].v.deleted_at > before.v.deleted_at
                  ELSE table[pk] = before

\* Without a default filter, a soft-deleted row is still what retrieve_raw
\* returns, among what list_raw returns, among what count counts, and what
\* update_raw writes; with the default filter deleted_at IS NULL, retrieve_raw
\* and update_raw do not find it and list_raw does not return it.
SoftDeletedStillMatched(f) ==
    LET pk == flow[f].args.pk
        before == flow[f].pre.table
        plain == service.repo.default_filters = <<>>
    IN  /\ (Ran(f, "retrieve_raw") /\ NamedRowSoftDeleted(f)) =>
               flow[f].result = IF plain THEN Return(before[pk].v)
                                ELSE Raise(NotFoundError(not_found_error(service)))
        /\ (Ran(f, "update_raw") /\ NamedRowSoftDeleted(f)) =>
               IF plain
               THEN /\ flow[f].result = Return(table[pk].v)
                    /\ table[pk].v.name = flow[f].args.data["name"]
                    /\ table[pk].v.deleted_at = before[pk].v.deleted_at
               ELSE /\ flow[f].result = Raise(NotFoundError(not_found_error(service)))
                    /\ table = before
        /\ Ran(f, "list_raw") =>
               \A k \in PKs :
                   (before[k].given /\ before[k].v.deleted_at > 0) =>
                       (plain <=> before[k].v \in Range(flow[f].result.value))
        /\ \A k \in PKs :
               (table[k].given /\ table[k].v.deleted_at > 0) =>
                   (plain <=> k \in Matching(table, count(service.repo, None).where))

C30_RetrievedAfterSoftDelete ==
    /\ Ran("f1", "retrieve_raw")
    /\ NamedRowSoftDeleted("f1")
    /\ ~flow["f1"].result.raised

====
